---- MODULE Spec2Model ----
(***************************************************************************)
(* The API snapshot / diff / classification pipeline of docs/ultrathink:   *)
(*   introspection/signature_hasher.py   SignatureHasher                   *)
(*   diffing/api_differ.py               APIDiffer                         *)
(*   diffing/change_classifier.py        ChangeClassifier                  *)
(* and, each with a specification of its own,                              *)
(*   diffing/version_tracker.py          VersionTracker                    *)
(*   generation/stub_generator.py        StubGenerator                     *)
(*   generation/deprecation_manager.py   DeprecationManager                *)
(*   generation/autodoc_builder.py       AutodocBuilder                    *)
(*   ci/gating_logic.py                  DocumentationGating               *)
(*   ci/pre_commit_hook.py               PreCommitHook                     *)
(* Python values are modelled as follows.  A dict whose iteration order is *)
(* observable is a sequence of <<key, value>> pairs in insertion order; a   *)
(* str is a TLA+ string, and where the code looks inside a string (`in`,    *)
(* startswith, lower, sorted, glob) its characters are taken from Chars.    *)
(* None is the string NoneV.                                               *)
(***************************************************************************)
EXTENDS Integers, Sequences, FiniteSets, TLC

VARIABLES snapshots, diffs, today, writes, last, db, stubs, hooks

vars == <<snapshots, diffs, today, writes, last, db, stubs, hooks>>

NoneV == "<None>"

\* VersionTracker._init_database on a new docs directory: three empty tables.
\* A table is the sequence of its rows in rowid order.
_init_database ==
    [versions |-> <<>>, version_changes |-> <<>>, deprecations |-> <<>>]

\* StubGenerator on a new output directory: no stub file in api_reference.
NoStubs == <<>>

\* .git/hooks without a pre-commit hook: the content of the files pre-commit
\* and pre-commit.backup, NoneV for a file that does not exist.
NoHooks == [pre_commit |-> NoneV, backup |-> NoneV]

(***************************************************************************)
(* Strings.                                                                *)
(***************************************************************************)
\* The characters of every string literal whose content the code inspects.
Chars ==
    "foo" :> <<"f", "o", "o">>
    @@ "Bar" :> <<"B", "a", "r">>
    @@ "new_helper" :> <<"n", "e", "w", "_", "h", "e", "l", "p", "e", "r">>
    @@ "collector_run" :> <<"c", "o", "l", "l", "e", "c", "t", "o", "r", "_", "r", "u", "n">>
    @@ "_private" :> <<"_", "p", "r", "i", "v", "a", "t", "e">>
    @@ "old_deprecated" :> <<"o", "l", "d", "_", "d", "e", "p", "r", "e", "c", "a", "t", "e", "d">>
    @@ "deprecated_data" :> <<"d", "e", "p", "r", "e", "c", "a", "t", "e", "d", "_", "d", "a", "t", "a">>
    @@ "AbstractBase" :> <<"A", "b", "s", "t", "r", "a", "c", "t", "B", "a", "s", "e">>
    @@ "__init__" :> <<"_", "_", "i", "n", "i", "t", "_", "_">>
    @@ "required" :> <<"r", "e", "q", "u", "i", "r", "e", "d">>
    @@ "mandatory" :> <<"m", "a", "n", "d", "a", "t", "o", "r", "y">>
    @@ "abstract" :> <<"a", "b", "s", "t", "r", "a", "c", "t">>
    @@ "interface" :> <<"i", "n", "t", "e", "r", "f", "a", "c", "e">>
    @@ "protocol" :> <<"p", "r", "o", "t", "o", "c", "o", "l">>
    @@ "deprecated" :> <<"d", "e", "p", "r", "e", "c", "a", "t", "e", "d">>
    @@ "collector" :> <<"c", "o", "l", "l", "e", "c", "t", "o", "r">>
    @@ "filler" :> <<"f", "i", "l", "l", "e", "r">>
    @@ "data" :> <<"d", "a", "t", "a">>
    @@ "csv" :> <<"c", "s", "v">>
    @@ "operations" :> <<"o", "p", "e", "r", "a", "t", "i", "o", "n", "s">>
    @@ "_" :> <<"_">>
    @@ "1.0" :> <<"1", ".", "0">>
    @@ "1.0_rc1" :> <<"1", ".", "0", "_", "r", "c", "1">>
    @@ "2.0" :> <<"2", ".", "0">>
    @@ "2026-01-01" :> <<"2", "0", "2", "6", "-", "0", "1", "-", "0", "1">>
    @@ "2026-01-02" :> <<"2", "0", "2", "6", "-", "0", "1", "-", "0", "2">>
    @@ "2026-01-03" :> <<"2", "0", "2", "6", "-", "0", "1", "-", "0", "3">>
    @@ "2026-01-04" :> <<"2", "0", "2", "6", "-", "0", "1", "-", "0", "4">>
    @@ "api_snapshot_" :> <<"a", "p", "i", "_", "s", "n", "a", "p", "s", "h", "o", "t", "_">>
    @@ ".json" :> <<".", "j", "s", "o", "n">>
    @@ "name" :> <<"n", "a", "m", "e">>
    @@ "type" :> <<"t", "y", "p", "e">>
    @@ "signature" :> <<"s", "i", "g", "n", "a", "t", "u", "r", "e">>
    @@ "parameters" :> <<"p", "a", "r", "a", "m", "e", "t", "e", "r", "s">>
    @@ "return_annotation" :> <<"r", "e", "t", "u", "r", "n", "_", "a", "n", "n", "o", "t", "a", "t", "i", "o", "n">>
    @@ "doc_summary" :> <<"d", "o", "c", "_", "s", "u", "m", "m", "a", "r", "y">>
    @@ "is_async" :> <<"i", "s", "_", "a", "s", "y", "n", "c">>
    @@ "is_generator" :> <<"i", "s", "_", "g", "e", "n", "e", "r", "a", "t", "o", "r">>
    @@ "base_classes" :> <<"b", "a", "s", "e", "_", "c", "l", "a", "s", "s", "e", "s">>
    @@ "mro" :> <<"m", "r", "o">>
    @@ "methods" :> <<"m", "e", "t", "h", "o", "d", "s">>
    @@ "class_methods" :> <<"c", "l", "a", "s", "s", "_", "m", "e", "t", "h", "o", "d", "s">>
    @@ "static_methods" :> <<"s", "t", "a", "t", "i", "c", "_", "m", "e", "t", "h", "o", "d", "s">>
    @@ "properties" :> <<"p", "r", "o", "p", "e", "r", "t", "i", "e", "s">>
    @@ "kind" :> <<"k", "i", "n", "d">>
    @@ "has_default" :> <<"h", "a", "s", "_", "d", "e", "f", "a", "u", "l", "t">>
    @@ "annotation" :> <<"a", "n", "n", "o", "t", "a", "t", "i", "o", "n">>
    @@ "default" :> <<"d", "e", "f", "a", "u", "l", "t">>
    @@ "method_signatures" :> <<"m", "e", "t", "h", "o", "d", "_", "s", "i", "g", "n", "a", "t", "u", "r", "e", "s">>
    @@ "class_method_signatures" :> <<"c", "l", "a", "s", "s", "_", "m", "e", "t", "h", "o", "d", "_", "s", "i", "g", "n", "a", "t", "u", "r", "e", "s">>
    @@ "static_method_signatures" :> <<"s", "t", "a", "t", "i", "c", "_", "m", "e", "t", "h", "o", "d", "_", "s", "i", "g", "n", "a", "t", "u", "r", "e", "s">>
    @@ "parameter_types" :> <<"p", "a", "r", "a", "m", "e", "t", "e", "r", "_", "t", "y", "p", "e", "s">>
    @@ "method_names" :> <<"m", "e", "t", "h", "o", "d", "_", "n", "a", "m", "e", "s">>
    @@ "class_method_names" :> <<"c", "l", "a", "s", "s", "_", "m", "e", "t", "h", "o", "d", "_", "n", "a", "m", "e", "s">>
    @@ "static_method_names" :> <<"s", "t", "a", "t", "i", "c", "_", "m", "e", "t", "h", "o", "d", "_", "n", "a", "m", "e", "s">>
    @@ "a" :> <<"a">>
    @@ "b" :> <<"b">>
    @@ "c" :> <<"c">>
    @@ "run" :> <<"r", "u", "n">>
    @@ "stop" :> <<"s", "t", "o", "p">>
    @@ "Base" :> <<"B", "a", "s", "e">>
    @@ "Mixin" :> <<"M", "i", "x", "i", "n">>
    @@ "object" :> <<"o", "b", "j", "e", "c", "t">>
    @@ "dict" :> <<"d", "i", "c", "t">>
    @@ "DataFiller" :> <<"D", "a", "t", "a", "F", "i", "l", "l", "e", "r">>
    @@ "_deprecated_cache" :> <<"_", "d", "e", "p", "r", "e", "c", "a", "t", "e", "d", "_", "c", "a", "c", "h", "e">>
    @@ "_csv" :> <<"_", "c", "s", "v">>
    @@ "Fetch rows. Blocks until done" :> <<"F", "e", "t", "c", "h", " ", "r", "o", "w", "s", ".", " ", "B", "l", "o", "c", "k", "s", " ", "u", "n", "t", "i", "l", " ", "d", "o", "n", "e">>
    @@ "Fetch rows. Returns early" :> <<"F", "e", "t", "c", "h", " ", "r", "o", "w", "s", ".", " ", "R", "e", "t", "u", "r", "n", "s", " ", "e", "a", "r", "l", "y">>
    @@ "Fetch all rows" :> <<"F", "e", "t", "c", "h", " ", "a", "l", "l", " ", "r", "o", "w", "s">>
    @@ "function" :> <<"f", "u", "n", "c", "t", "i", "o", "n">>
    @@ "class" :> <<"c", "l", "a", "s", "s">>
    @@ "variable" :> <<"v", "a", "r", "i", "a", "b", "l", "e">>
    @@ ".md" :> <<".", "m", "d">>
    @@ "1.5.0" :> <<"1", ".", "5", ".", "0">>
    @@ "2.0.0" :> <<"2", ".", "0", ".", "0">>
    @@ "2.0.0-rc1" :> <<"2", ".", "0", ".", "0", "-", "r", "c", "1">>
    @@ "" :> <<>>

\* Unicode code points, the order Python's sorted() and sort_keys use on str.
Ord ==
    " " :> 32
    @@ "-" :> 45
    @@ "." :> 46
    @@ "0" :> 48
    @@ "1" :> 49
    @@ "2" :> 50
    @@ "3" :> 51
    @@ "4" :> 52
    @@ "5" :> 53
    @@ "6" :> 54
    @@ "A" :> 65
    @@ "B" :> 66
    @@ "D" :> 68
    @@ "F" :> 70
    @@ "M" :> 77
    @@ "R" :> 82
    @@ "_" :> 95
    @@ "a" :> 97
    @@ "b" :> 98
    @@ "c" :> 99
    @@ "d" :> 100
    @@ "e" :> 101
    @@ "f" :> 102
    @@ "g" :> 103
    @@ "h" :> 104
    @@ "i" :> 105
    @@ "j" :> 106
    @@ "k" :> 107
    @@ "l" :> 108
    @@ "m" :> 109
    @@ "n" :> 110
    @@ "o" :> 111
    @@ "p" :> 112
    @@ "q" :> 113
    @@ "r" :> 114
    @@ "s" :> 115
    @@ "t" :> 116
    @@ "u" :> 117
    @@ "v" :> 118
    @@ "w" :> 119
    @@ "x" :> 120
    @@ "y" :> 121

\* str.lower() on the characters that occur.
UpperToLower ==
    "A" :> "a"
    @@ "B" :> "b"
    @@ "D" :> "d"
    @@ "F" :> "f"
    @@ "M" :> "m"
    @@ "R" :> "r"

LowerChar(c) == IF c \in DOMAIN UpperToLower THEN UpperToLower[c] ELSE c

Lower(cs) == [i \in 1..Len(cs) |-> LowerChar(cs[i])]

\* `pat in cs` on character sequences.
Contains(cs, pat) ==
    \E i \in 0..(Len(cs) - Len(pat)) :
        \A j \in 1..Len(pat) : cs[i + j] = pat[j]

StartsWith(cs, pre) ==
    /\ Len(pre) <= Len(cs)
    /\ \A j \in 1..Len(pre) : cs[j] = pre[j]

EndsWith(cs, suf) ==
    /\ Len(suf) <= Len(cs)
    /\ \A j \in 1..Len(suf) : cs[Len(cs) - Len(suf) + j] = suf[j]

\* Python's < on str: lexicographic by code point, a proper prefix first.
CharsLess(x, y) ==
    \E i \in 1..Len(y) :
        /\ \A j \in 1..(i - 1) : j <= Len(x) /\ x[j] = y[j]
        /\ \/ i = Len(x) + 1
           \/ i <= Len(x) /\ Ord[x[i]] < Ord[y[i]]

\* The position of each string in the order of <; s < t iff Rank[s] < Rank[t].
Rank ==
    [s \in DOMAIN Chars |->
        Cardinality({t \in DOMAIN Chars : CharsLess(Chars[t], Chars[s])})]

StrLess(s, t) == Rank[s] < Rank[t]

\* sorted(S) for a set of str.
RECURSIVE SortedSeq(_)
SortedSeq(S) ==
    IF S = {} THEN <<>>
    ELSE LET m == CHOOSE x \in S : \A y \in S \ {x} : StrLess(x, y)
         IN  <<m>> \o SortedSeq(S \ {m})

Range(s) == {s[i] : i \in DOMAIN s}

(***************************************************************************)
(* Insertion-ordered dicts: sequences of <<key, value>> with distinct keys. *)
(***************************************************************************)
Keys(d) == {d[i][1] : i \in DOMAIN d}

Get(d, k) == d[CHOOSE i \in DOMAIN d : d[i][1] = k][2]

\* The dict as a mapping: what Python's == on dicts compares.
AsMap(d) == [k \in Keys(d) |-> Get(d, k)]

(***************************************************************************)
(* API data, as APIExtractor.extract_complete_api produces it.  An element  *)
(* of public_api is a record; the keys a kind of element does not carry     *)
(* hold an empty value that no code path of that kind reads.                *)
(***************************************************************************)
Param(kind, annotation, default) ==
    [kind |-> kind, annotation |-> annotation, default |-> default,
     has_default |-> (default # NoneV)]

Function(module, signature, parameters, return_annotation, doc) ==
    [type |-> "function", module |-> module, doc |-> doc,
     signature |-> signature, parameters |-> parameters,
     return_annotation |-> return_annotation,
     is_async |-> FALSE, is_generator |-> FALSE,
     base_classes |-> <<>>, mro |-> <<>>, methods |-> <<>>]

Class(name, module, base_classes, methods, doc) ==
    [type |-> "class", module |-> module, doc |-> doc,
     signature |-> NoneV, parameters |-> <<>>,
     return_annotation |-> NoneV,
     is_async |-> FALSE, is_generator |-> FALSE,
     base_classes |-> base_classes,
     mro |-> <<name>> \o base_classes \o <<"object">>, methods |-> methods]

Variable(module) ==
    [type |-> "variable", module |-> module, doc |-> "",
     signature |-> NoneV, parameters |-> <<>>,
     return_annotation |-> NoneV,
     is_async |-> FALSE, is_generator |-> FALSE,
     base_classes |-> <<>>, mro |-> <<>>, methods |-> <<>>]

Method(signature, doc) == [signature |-> signature, doc |-> doc]

(***************************************************************************)
(* SignatureHasher.                                                        *)
(***************************************************************************)
\* Values handed to json.dumps, tagged by their Python type.
PStr(s) == IF s = NoneV THEN <<"none">> ELSE <<"str", s>>

PChars(cs) == <<"chars", cs>>

PBool(b) == <<"bool", b>>

PList(items) == <<"list", items>>

PDict(pairs) == <<"dict", pairs>>

\* bool(s) of an Optional[str].
Truthy(s) == s # NoneV /\ s # ""

IsSpace(c) == c = " " \/ c = "\n" \/ c = "\t"

RECURSIVE Strip(_)
Strip(cs) ==
    IF cs = <<>> THEN cs
    ELSE IF IsSpace(cs[1]) THEN Strip(Tail(cs))
    ELSE IF IsSpace(cs[Len(cs)]) THEN Strip(SubSeq(cs, 1, Len(cs) - 1))
    ELSE cs

\* The part of cs before the first character of `stops` (all of cs if none).
UpTo(cs, stops) ==
    LET hits == {i \in 1..Len(cs) : cs[i] \in stops}
    IN  IF hits = {} THEN cs
        ELSE SubSeq(cs, 1, (CHOOSE i \in hits : \A j \in hits : i <= j) - 1)

_extract_doc_summary(docstring) ==
    LET first_line == Strip(UpTo(Strip(Chars[docstring]), {"\n"}))
    IN  Strip(UpTo(first_line, {".", "!", "?"}))

\* {"doc_summary": ...} when the docstring is truthy.
DocEntry(doc) ==
    IF Truthy(doc) THEN <<<<"doc_summary", PChars(_extract_doc_summary(doc))>>>> ELSE <<>>

_normalize_parameters(parameters) ==
    [i \in DOMAIN parameters |->
        LET param_name == parameters[i][1]
            param_data == parameters[i][2]
        IN  <<param_name,
              PDict(<<<<"name", PStr(param_name)>>,
                      <<"kind", PStr(param_data.kind)>>,
                      <<"has_default", PBool(param_data.has_default)>>>>
                    \o (IF Truthy(param_data.annotation)
                        THEN <<<<"annotation", PStr(param_data.annotation)>>>> ELSE <<>>)
                    \o (IF param_data.default # NoneV
                        THEN <<<<"default", PStr(param_data.default)>>>> ELSE <<>>))>>]

_normalize_methods(methods) ==
    [i \in DOMAIN methods |->
        LET method_name == methods[i][1]
            method_data == methods[i][2]
        IN  <<method_name,
              PDict(<<<<"name", PStr(method_name)>>,
                      <<"signature", PStr(method_data.signature)>>>>
                    \o DocEntry(method_data.doc))>>]

\* {name: method.get("signature")} of the moderate level.
MethodSignatures(methods) ==
    [i \in DOMAIN methods |-> <<methods[i][1], PStr(methods[i][2].signature)>>]

_normalize_class_data(level, class_name, class_data) ==
    <<<<"name", PStr(class_name)>>, <<"type", PStr("class")>>,
      <<"base_classes", PList(SortedSeq(Range(class_data.base_classes)))>>,
      <<"mro", PList(class_data.mro)>>>>
    \o (IF level = "strict" THEN
            <<<<"methods", PDict(_normalize_methods(class_data.methods))>>,
              <<"class_methods", PDict(<<>>)>>,
              <<"static_methods", PDict(<<>>)>>,
              <<"properties", PDict(<<>>)>>>>
            \o DocEntry(class_data.doc)
        ELSE IF level = "moderate" THEN
            <<<<"method_signatures", PDict(MethodSignatures(class_data.methods))>>,
              <<"class_method_signatures", PDict(<<>>)>>,
              <<"static_method_signatures", PDict(<<>>)>>>>
        ELSE
            <<<<"method_names", PList(SortedSeq(Keys(class_data.methods)))>>,
              <<"class_method_names", PList(<<>>)>>,
              <<"static_method_names", PList(<<>>)>>>>)

\* _normalize_function_data that leaves the signature out at the relaxed level.
_normalize_function_data_NamesOnly(level, func_name, func_data) ==
    <<<<"name", PStr(func_name)>>, <<"type", PStr(func_data.type)>>>>
    \o (IF level = "strict" THEN
            <<<<"signature", PStr(func_data.signature)>>,
              <<"parameters", PDict(_normalize_parameters(func_data.parameters))>>,
              <<"return_annotation", PStr(func_data.return_annotation)>>>>
            \o DocEntry(func_data.doc)
            \o <<<<"is_async", PBool(func_data.is_async)>>,
                 <<"is_generator", PBool(func_data.is_generator)>>>>
        ELSE IF level = "moderate" THEN
            <<<<"signature", PStr(func_data.signature)>>,
              <<"parameter_types",
                PDict([i \in DOMAIN func_data.parameters |->
                    <<func_data.parameters[i][1],
                      PStr(func_data.parameters[i][2].annotation)>>])>>,
              <<"return_annotation", PStr(func_data.return_annotation)>>>>
        ELSE <<>>)

\* "Always include signature if available": the signature text is part of
\* the record at every level.
_normalize_function_data(level, func_name, func_data) ==
    <<<<"name", PStr(func_name)>>, <<"type", PStr(func_data.type)>>,
      <<"signature", PStr(func_data.signature)>>>>
    \o (IF level = "strict" THEN
            <<<<"parameters", PDict(_normalize_parameters(func_data.parameters))>>,
              <<"return_annotation", PStr(func_data.return_annotation)>>>>
            \o DocEntry(func_data.doc)
            \o <<<<"is_async", PBool(func_data.is_async)>>,
                 <<"is_generator", PBool(func_data.is_generator)>>>>
        ELSE IF level = "moderate" THEN
            <<<<"parameter_types",
                PDict([i \in DOMAIN func_data.parameters |->
                    <<func_data.parameters[i][1],
                      PStr(func_data.parameters[i][2].annotation)>>])>>,
              <<"return_annotation", PStr(func_data.return_annotation)>>>>
        ELSE <<>>)

_normalize_variable_data(var_name, var_data) ==
    <<<<"name", PStr(var_name)>>, <<"type", PStr(var_data.type)>>>>

_normalize_element_data(level, element_name, element_data) ==
    IF element_data.type = "class"
    THEN PDict(_normalize_class_data(level, element_name, element_data))
    ELSE IF element_data.type \in {"function", "method"}
    THEN PDict(_normalize_function_data(level, element_name, element_data))
    ELSE PDict(_normalize_variable_data(element_name, element_data))

\* The order in which json.dumps(..., sort_keys=True) writes a dict's keys.
DictItemOrder_Unsorted(pairs) == [i \in DOMAIN pairs |-> pairs[i][1]]

DictItemOrder(pairs) == SortedSeq(Keys(pairs))

RECURSIVE JoinTokens(_)
JoinTokens(parts) ==
    IF parts = <<>> THEN <<>>
    ELSE IF Len(parts) = 1 THEN parts[1]
    ELSE parts[1] \o <<",">> \o JoinTokens(Tail(parts))

\* json.dumps(v, sort_keys=True, separators=(',', ':')): the text as a
\* sequence of tokens; a quoted string's content is one token.
RECURSIVE json_dumps(_)
json_dumps(v) ==
    CASE v[1] = "none" -> <<"null">>
      [] v[1] = "str" -> <<"\"", v[2], "\"">>
      [] v[1] = "chars" -> <<"\"">> \o v[2] \o <<"\"">>
      [] v[1] = "bool" -> <<IF v[2] THEN "true" ELSE "false">>
      [] v[1] = "list" ->
            <<"[">> \o JoinTokens([i \in DOMAIN v[2] |-> <<"\"", v[2][i], "\"">>]) \o <<"]">>
      [] v[1] = "dict" ->
            LET order == DictItemOrder(v[2])
            IN  <<"{">>
                \o JoinTokens([i \in DOMAIN order |->
                       <<"\"", order[i], "\"", ":">> \o json_dumps(Get(v[2], order[i]))])
                \o <<"}">>

\* hashlib.sha256(text).hexdigest(): collision-free, so the digest stands
\* for the text it was computed from.
sha256_hexdigest(text) == <<"sha256">> \o text

_create_element_hash(level, element_name, element_data) ==
    sha256_hexdigest(json_dumps(_normalize_element_data(level, element_name, element_data)))

\* A parameter entry that is None instead of a dict (null in a snapshot
\* file): param_data.get raises AttributeError.
NoneParam == [none |-> TRUE]

\* _create_element_hash raises on this element: the strict and the moderate
\* level call .get on every parameter entry of a function, the relaxed level
\* does not look at the parameters.  On the dicts APIExtractor builds it
\* never raises.
HashingRaises(level, element_data) ==
    /\ element_data.type \in {"function", "method"}
    /\ level \in {"strict", "moderate"}
    /\ \E i \in DOMAIN element_data.parameters :
           element_data.parameters[i][2] = NoneParam

\* hash_api_signature whose result has no entry for an element that raised.
hash_api_signature_NoSentinel(level, api_data) ==
    [element_name \in {e \in Keys(api_data.public_api) :
                           ~ HashingRaises(level, Get(api_data.public_api, e))} |->
        _create_element_hash(level, element_name, Get(api_data.public_api, element_name))]

\* The result dict, as the mapping name -> digest; the except branch stores
\* "error" for an element whose hashing raised.
hash_api_signature(level, api_data) ==
    [element_name \in Keys(api_data.public_api) |->
        IF HashingRaises(level, Get(api_data.public_api, element_name))
        THEN "error"
        ELSE _create_element_hash(level, element_name,
                                  Get(api_data.public_api, element_name))]

\* compare_signatures without the comparison of the hashes.
compare_signatures_NoHashCheck(old_hashes, new_hashes) ==
    LET old_elements == DOMAIN old_hashes
        new_elements == DOMAIN new_hashes
        added == SortedSeq(new_elements \ old_elements)
        removed == SortedSeq(old_elements \ new_elements)
        modified == SortedSeq(old_elements \cap new_elements)
    IN  [added |-> added, removed |-> removed,
         modified |-> modified, unchanged |-> <<>>,
         summary |-> [total_changes |-> Len(added) + Len(removed) + Len(modified),
                      breaking_changes |-> Len(removed) + Len(modified),
                      non_breaking_changes |-> Len(added)]]

\* compare_signatures that reports the elements whose hashes differ and
\* forgets the others.
compare_signatures_NoUnchanged(old_hashes, new_hashes) ==
    LET old_elements == DOMAIN old_hashes
        new_elements == DOMAIN new_hashes
        common_elements == old_elements \cap new_elements
        added == SortedSeq(new_elements \ old_elements)
        removed == SortedSeq(old_elements \ new_elements)
        modified == SortedSeq({e \in common_elements : old_hashes[e] # new_hashes[e]})
    IN  [added |-> added, removed |-> removed,
         modified |-> modified, unchanged |-> <<>>,
         summary |-> [total_changes |-> Len(added) + Len(removed) + Len(modified),
                      breaking_changes |-> Len(removed) + Len(modified),
                      non_breaking_changes |-> Len(added)]]

\* compare_signatures listing every common element as unchanged.
compare_signatures_CommonUnchanged(old_hashes, new_hashes) ==
    LET old_elements == DOMAIN old_hashes
        new_elements == DOMAIN new_hashes
        common_elements == old_elements \cap new_elements
        added == SortedSeq(new_elements \ old_elements)
        removed == SortedSeq(old_elements \ new_elements)
        modified == SortedSeq({e \in common_elements : old_hashes[e] # new_hashes[e]})
        unchanged == SortedSeq(common_elements)
    IN  [added |-> added, removed |-> removed,
         modified |-> modified, unchanged |-> unchanged,
         summary |-> [total_changes |-> Len(added) + Len(removed) + Len(modified),
                      breaking_changes |-> Len(removed) + Len(modified),
                      non_breaking_changes |-> Len(added)]]

\* SignatureHasher.compare_signatures; the four lists are sorted.
compare_signatures(old_hashes, new_hashes) ==
    LET old_elements == DOMAIN old_hashes
        new_elements == DOMAIN new_hashes
        common_elements == old_elements \cap new_elements
        added == SortedSeq(new_elements \ old_elements)
        removed == SortedSeq(old_elements \ new_elements)
        modified == SortedSeq({e \in common_elements : old_hashes[e] # new_hashes[e]})
        unchanged == SortedSeq({e \in common_elements : ~(old_hashes[e] # new_hashes[e])})
    IN  [added |-> added, removed |-> removed,
         modified |-> modified, unchanged |-> unchanged,
         summary |-> [total_changes |-> Len(added) + Len(removed) + Len(modified),
                      breaking_changes |-> Len(removed) + Len(modified),
                      non_breaking_changes |-> Len(added)]]

(***************************************************************************)
(* JSON files.  json.dump(..., sort_keys=True) writes every dict with its   *)
(* keys sorted and a tuple as an array; json.load reads an object as a dict *)
(* in the order of the text and an array as a list.                         *)
(***************************************************************************)
SortDict(d) ==
    LET order == DictItemOrder(d)
    IN  [i \in DOMAIN order |-> <<order[i], Get(d, order[i])>>]

json_dump_element(e) ==
    [e EXCEPT !.parameters = SortDict(e.parameters), !.methods = SortDict(e.methods)]

json_dump_api(api_data) ==
    [package_info |->
        [api_data.package_info EXCEPT !.all = [py |-> "array", items |-> @.items]],
     public_api |->
        SortDict([i \in DOMAIN api_data.public_api |->
            <<api_data.public_api[i][1], json_dump_element(api_data.public_api[i][2])>>])]

json_load_api(doc) ==
    [doc EXCEPT !.package_info.all = [py |-> "list", items |-> @.items]]

\* Python's == on two api_data values: dicts compare as mappings, a list
\* never equals a tuple.
PyElement(e) ==
    [e EXCEPT !.parameters = AsMap(e.parameters), !.methods = AsMap(e.methods)]

PyValue(api_data) ==
    [package_info |-> api_data.package_info,
     public_api |-> [k \in Keys(api_data.public_api) |->
                        PyElement(Get(api_data.public_api, k))]]

PyEqual(a, b) == PyValue(a) = PyValue(b)

(***************************************************************************)
(* APIDiffer: the snapshot store.                                          *)
(* snapshots maps a file of api_snapshots/, named by <<version, date>>, to  *)
(* [content, mtime]; diffs is the set of files of api_diffs/, named by      *)
(* <<old, new, date>>.  `today` indexes the calendar date datetime.now()    *)
(* returns; `writes` counts file writes and stamps st_mtime, so a later     *)
(* write has a later modification time.                                     *)
(***************************************************************************)
DateStr == <<"2026-01-01", "2026-01-02">>

\* datetime.now().isoformat(): the date, then the time of day.
Timestamp(day, tick) == <<DateStr[day], tick>>

\* timestamp[:10]
DateOf(timestamp) == timestamp[1]

\* f"api_snapshot_{version}_{timestamp[:10]}.json"
SnapshotFileName(version, date) ==
    Chars["api_snapshot_"] \o Chars[version] \o Chars["_"] \o Chars[date] \o Chars[".json"]

\* Path.glob(f"api_snapshot_{version}_*.json"): * matches any run of characters.
GlobMatches(version, file) ==
    LET prefix == Chars["api_snapshot_"] \o Chars[version] \o Chars["_"]
        suffix == Chars[".json"]
        name == SnapshotFileName(file[1], file[2])
    IN  /\ Len(prefix) + Len(suffix) <= Len(name)
        /\ StartsWith(name, prefix)
        /\ EndsWith(name, suffix)

\* The snapshot dict built by create_api_snapshot.
NewSnapshot(api_data, version, timestamp) ==
    [version |-> version,
     timestamp |-> timestamp,
     api_data |-> api_data,
     signature_hashes |-> hash_api_signature("strict", api_data),
     metadata |-> [package_name |-> api_data.package_info.name,
                   total_elements |-> Len(api_data.public_api),
                   snapshot_format_version |-> "1.0"]]

\* json.dump(snapshot, f, sort_keys=True) and json.load(f).
json_dump_snapshot(snapshot) ==
    [snapshot EXCEPT !.api_data = json_dump_api(@)]

json_load_snapshot(text) ==
    [text EXCEPT !.api_data = json_load_api(@)]

\* The store after create_api_snapshot: open(snapshot_file, 'w') replaces a
\* file of the same name.
StoreAfterCreate(store, api_data, version, day, tick) ==
    LET timestamp == Timestamp(day, tick)
        file == <<version, DateOf(timestamp)>>
        entry == [content |-> json_dump_snapshot(NewSnapshot(api_data, version, timestamp)),
                  mtime |-> tick]
    IN  [f \in DOMAIN store \cup {file} |-> IF f = file THEN entry ELSE store[f]]

\* _load_latest_snapshot taking the file modified first instead of last.
_load_latest_snapshot_Oldest(store, version) ==
    LET snapshot_files == {f \in DOMAIN store : GlobMatches(version, f)}
    IN  IF snapshot_files = {} THEN <<>>
        ELSE LET latest_file == CHOOSE f \in snapshot_files :
                     \A g \in snapshot_files : store[f].mtime <= store[g].mtime
             IN  <<json_load_snapshot(store[latest_file].content)>>

\* _load_latest_snapshot taking whichever matching file comes first.
_load_latest_snapshot_FirstMatch(store, version) ==
    LET snapshot_files == {f \in DOMAIN store : GlobMatches(version, f)}
    IN  IF snapshot_files = {} THEN <<>>
        ELSE LET latest_file == CHOOSE f \in snapshot_files : TRUE
             IN  <<json_load_snapshot(store[latest_file].content)>>

\* None is <<>>, a loaded snapshot s is <<s>>.
_load_latest_snapshot(store, version) ==
    LET snapshot_files == {f \in DOMAIN store : GlobMatches(version, f)}
    IN  IF snapshot_files = {} THEN <<>>
        ELSE LET latest_file == CHOOSE f \in snapshot_files :
                     \A g \in snapshot_files : store[g].mtime <= store[f].mtime
             IN  <<json_load_snapshot(store[latest_file].content)>>

(***************************************************************************)
(* APIDiffer: comparison.                                                  *)
(***************************************************************************)
RECURSIVE Flatten(_)
Flatten(parts) ==
    IF parts = <<>> THEN <<>> ELSE parts[1] \o Flatten(Tail(parts))

\* The dict.get("annotation" | "default" | "kind") differences of one parameter.
ParamDiff(old_param, new_param) ==
    LET changed == {k \in {"annotation", "default", "kind"} :
                        CASE k = "annotation" -> old_param.annotation # new_param.annotation
                          [] k = "default" -> old_param.default # new_param.default
                          [] k = "kind" -> old_param.kind # new_param.kind}
    IN  [k \in changed |->
            CASE k = "annotation" -> [old |-> old_param.annotation, new |-> new_param.annotation]
              [] k = "default" -> [old |-> old_param.default, new |-> new_param.default]
              [] k = "kind" -> [old |-> old_param.kind, new |-> new_param.kind]]

\* param_changes of _compare_function_changes.
FunctionParamChanges(old_func, new_func) ==
    LET old_params == old_func.parameters
        new_params == new_func.parameters
        old_param_names == Keys(old_params)
        new_param_names == Keys(new_params)
        common_params == old_param_names \cap new_param_names
        differing == {p \in common_params :
                        DOMAIN ParamDiff(Get(old_params, p), Get(new_params, p)) # {}}
    IN  [added_parameters |-> SortedSeq(new_param_names \ old_param_names),
         removed_parameters |-> SortedSeq(old_param_names \ new_param_names),
         modified_parameters |->
            [p \in differing |-> ParamDiff(Get(old_params, p), Get(new_params, p))]]

\* any(param_changes.values())
AnyParamChange(pc) ==
    \/ pc.added_parameters # <<>>
    \/ pc.removed_parameters # <<>>
    \/ DOMAIN pc.modified_parameters # {}

BothCallable(o, n) ==
    /\ o.type \in {"function", "method"}
    /\ n.type \in {"function", "method"}

\* _compare_api_structures whose type comparison runs over the elements of
\* either snapshot, a missing element having type "unknown".
_compare_api_structures_AllElements(old_snapshot, new_snapshot) ==
    LET old_api == old_snapshot.api_data.public_api
        new_api == new_snapshot.api_data.public_api
        common_elements == Keys(old_api) \cap Keys(new_api)
        O(e) == Get(old_api, e)
        N(e) == Get(new_api, e)
        TypeIn(api, e) == IF e \in Keys(api) THEN Get(api, e).type ELSE "unknown"
    IN  [type_changes |->
            [e \in {x \in Keys(old_api) \cup Keys(new_api) :
                        TypeIn(old_api, x) # TypeIn(new_api, x)} |->
                [old |-> TypeIn(old_api, e), new |-> TypeIn(new_api, e)]],
         module_changes |->
            [e \in {x \in common_elements : O(x).module # N(x).module} |->
                [old |-> O(e).module, new |-> N(e).module]],
         inheritance_changes |->
            [e \in {x \in common_elements :
                        /\ O(x).type = "class" /\ N(x).type = "class"
                        /\ Range(O(x).base_classes) # Range(N(x).base_classes)} |->
                [added_bases |->
                    SortedSeq(Range(N(e).base_classes) \ Range(O(e).base_classes)),
                 removed_bases |->
                    SortedSeq(Range(O(e).base_classes) \ Range(N(e).base_classes))]],
         parameter_changes |->
            [e \in {x \in common_elements :
                        /\ BothCallable(O(x), N(x))
                        /\ AnyParamChange(FunctionParamChanges(O(x), N(x)))} |->
                FunctionParamChanges(O(e), N(e))],
         return_type_changes |->
            [e \in {x \in common_elements :
                        /\ BothCallable(O(x), N(x))
                        /\ O(x).return_annotation # N(x).return_annotation} |->
                [old |-> O(e).return_annotation, new |-> N(e).return_annotation]]]

\* APIDiffer._compare_api_structures with _compare_class_changes and
\* _compare_function_changes.
_compare_api_structures(old_snapshot, new_snapshot) ==
    LET old_api == old_snapshot.api_data.public_api
        new_api == new_snapshot.api_data.public_api
        common_elements == Keys(old_api) \cap Keys(new_api)
        O(e) == Get(old_api, e)
        N(e) == Get(new_api, e)
    IN  [type_changes |->
            [e \in {x \in common_elements : O(x).type # N(x).type} |->
                [old |-> O(e).type, new |-> N(e).type]],
         module_changes |->
            [e \in {x \in common_elements : O(x).module # N(x).module} |->
                [old |-> O(e).module, new |-> N(e).module]],
         inheritance_changes |->
            [e \in {x \in common_elements :
                        /\ O(x).type = "class" /\ N(x).type = "class"
                        /\ Range(O(x).base_classes) # Range(N(x).base_classes)} |->
                [added_bases |->
                    SortedSeq(Range(N(e).base_classes) \ Range(O(e).base_classes)),
                 removed_bases |->
                    SortedSeq(Range(O(e).base_classes) \ Range(N(e).base_classes))]],
         parameter_changes |->
            [e \in {x \in common_elements :
                        /\ BothCallable(O(x), N(x))
                        /\ AnyParamChange(FunctionParamChanges(O(x), N(x)))} |->
                FunctionParamChanges(O(e), N(e))],
         return_type_changes |->
            [e \in {x \in common_elements :
                        /\ BothCallable(O(x), N(x))
                        /\ O(x).return_annotation # N(x).return_annotation} |->
                [old |-> O(e).return_annotation, new |-> N(e).return_annotation]]]

\* APIDiffer._compare_signatures
_compare_signatures(old_snapshot, new_snapshot) ==
    compare_signatures(old_snapshot.signature_hashes, new_snapshot.signature_hashes)

BreakingChange(type, element, severity) ==
    [type |-> type, element |-> element, severity |-> severity]

\* _analyze_breaking_changes without the entries for added parameters.
_analyze_breaking_changes_NoAdditions(signature_changes, api_changes) ==
    LET removed == signature_changes.removed
        modified == signature_changes.modified
        param_changes == api_changes.parameter_changes
        funcs == SortedSeq(DOMAIN param_changes)
        typed == SortedSeq(DOMAIN api_changes.type_changes)
    IN  [i \in DOMAIN removed |-> BreakingChange("removal", removed[i], "high")]
        \o [i \in DOMAIN modified |->
                BreakingChange("signature_change", modified[i], "medium")]
        \o Flatten([i \in DOMAIN funcs |->
                IF param_changes[funcs[i]].removed_parameters # <<>>
                THEN <<BreakingChange("parameter_removal", funcs[i], "high")>> ELSE <<>>])
        \o [i \in DOMAIN typed |-> BreakingChange("type_change", typed[i], "high")]

\* _analyze_breaking_changes without the entries for removed elements.
_analyze_breaking_changes_NoRemovals(signature_changes, api_changes) ==
    LET modified == signature_changes.modified
        param_changes == api_changes.parameter_changes
        funcs == SortedSeq(DOMAIN param_changes)
        typed == SortedSeq(DOMAIN api_changes.type_changes)
    IN  [i \in DOMAIN modified |->
                BreakingChange("signature_change", modified[i], "medium")]
        \o Flatten([i \in DOMAIN funcs |->
                (IF param_changes[funcs[i]].removed_parameters # <<>>
                 THEN <<BreakingChange("parameter_removal", funcs[i], "high")>> ELSE <<>>)
                \o (IF param_changes[funcs[i]].added_parameters # <<>>
                    THEN <<BreakingChange("parameter_addition", funcs[i], "medium")>>
                    ELSE <<>>)])
        \o [i \in DOMAIN typed |-> BreakingChange("type_change", typed[i], "high")]

\* The list is built in the code's order.  The entries for parameters and
\* for types follow dicts filled while iterating over a set of names; the
\* API descriptions used here change at most one element in these respects,
\* so the order of that iteration does not show.
_analyze_breaking_changes(signature_changes, api_changes) ==
    LET removed == signature_changes.removed
        modified == signature_changes.modified
        param_changes == api_changes.parameter_changes
        funcs == SortedSeq(DOMAIN param_changes)
        typed == SortedSeq(DOMAIN api_changes.type_changes)
    IN  [i \in DOMAIN removed |-> BreakingChange("removal", removed[i], "high")]
        \o [i \in DOMAIN modified |->
                BreakingChange("signature_change", modified[i], "medium")]
        \o Flatten([i \in DOMAIN funcs |->
                (IF param_changes[funcs[i]].removed_parameters # <<>>
                 THEN <<BreakingChange("parameter_removal", funcs[i], "high")>> ELSE <<>>)
                \o (IF param_changes[funcs[i]].added_parameters # <<>>
                    THEN <<BreakingChange("parameter_addition", funcs[i], "medium")>>
                    ELSE <<>>)])
        \o [i \in DOMAIN typed |-> BreakingChange("type_change", typed[i], "high")]

CountSeverity(breaking_changes, severity) ==
    Cardinality({i \in DOMAIN breaking_changes : breaking_changes[i].severity = severity})

\* _generate_summary counting the removed and modified elements as the
\* breaking changes.
_generate_summary_CountsElements(signature_changes, breaking_changes) ==
    [total_changes |-> Len(signature_changes.added) + Len(signature_changes.removed)
                        + Len(signature_changes.modified),
     api_additions |-> Len(signature_changes.added),
     api_removals |-> Len(signature_changes.removed),
     api_modifications |-> Len(signature_changes.modified),
     breaking_changes_count |-> Len(signature_changes.removed)
                                + Len(signature_changes.modified),
     severity_analysis |-> [high |-> CountSeverity(breaking_changes, "high"),
                            medium |-> CountSeverity(breaking_changes, "medium"),
                            low |-> CountSeverity(breaking_changes, "low")],
     compatibility_assessment |->
        IF breaking_changes # <<>> THEN "breaking" ELSE "compatible"]

_generate_summary(signature_changes, breaking_changes) ==
    [total_changes |-> Len(signature_changes.added) + Len(signature_changes.removed)
                        + Len(signature_changes.modified),
     api_additions |-> Len(signature_changes.added),
     api_removals |-> Len(signature_changes.removed),
     api_modifications |-> Len(signature_changes.modified),
     breaking_changes_count |-> Len(breaking_changes),
     severity_analysis |-> [high |-> CountSeverity(breaking_changes, "high"),
                            medium |-> CountSeverity(breaking_changes, "medium"),
                            low |-> CountSeverity(breaking_changes, "low")],
     compatibility_assessment |->
        IF breaking_changes # <<>> THEN "breaking" ELSE "compatible"]

\* The diff_result compare_versions returns for two loaded snapshots.  The
\* entries documentation_changes (_compare_documentation), deprecations and
\* comparison_timestamp are left out: nothing below reads them.
DiffResult(old_version, new_version, old_snapshot, new_snapshot) ==
    LET signature_changes == _compare_signatures(old_snapshot, new_snapshot)
        api_changes == _compare_api_structures(old_snapshot, new_snapshot)
        breaking_changes == _analyze_breaking_changes(signature_changes, api_changes)
    IN  [comparison_info |-> [old_version |-> old_version,
                              new_version |-> new_version,
                              old_snapshot_timestamp |-> old_snapshot.timestamp,
                              new_snapshot_timestamp |-> new_snapshot.timestamp],
         signature_changes |-> signature_changes,
         api_changes |-> api_changes,
         breaking_changes |-> breaking_changes,
         summary |-> _generate_summary(signature_changes, breaking_changes)]

(***************************************************************************)
(* ChangeClassifier.  A description is the sequence of its parts; an        *)
(* absent optional entry of change_details is <<>>, a present one <<v>>.     *)
(***************************************************************************)
MatchesAny(element, patterns) ==
    \E pattern \in patterns : Contains(Lower(Chars[element]), Chars[pattern])

\* _apply_addition_rules matching the name as written, without lower().
_apply_addition_rules_CaseSensitive(element, classification) ==
    LET Has(pattern) == Contains(Chars[element], Chars[pattern])
        usage == \E pattern \in {"__init__", "required", "mandatory"} : Has(pattern)
        framework == \E pattern \in {"abstract", "interface", "protocol"} : Has(pattern)
    IN  [classification EXCEPT
            !.severity = IF usage \/ framework THEN "low" ELSE @,
            !.description = @
                \o (IF usage THEN <<" - may require updates to existing usage">> ELSE <<>>)
                \o (IF framework THEN <<" - new abstract interface">> ELSE <<>>)]

_apply_addition_rules(element, classification) ==
    LET usage == MatchesAny(element, {"__init__", "required", "mandatory"})
        framework == MatchesAny(element, {"abstract", "interface", "protocol"})
    IN  [classification EXCEPT
            !.severity = IF usage \/ framework THEN "low" ELSE @,
            !.description = @
                \o (IF usage THEN <<" - may require updates to existing usage">> ELSE <<>>)
                \o (IF framework THEN <<" - new abstract interface">> ELSE <<>>)]

\* The three rules assign the severity one after the other.
_apply_removal_rules_NoPrivateRule(element, classification) ==
    LET deprecated == Contains(Lower(Chars[element]), Chars["deprecated"])
        core == MatchesAny(element, {"collector", "filler", "data", "csv", "operations"})
        severity2 == IF deprecated THEN "medium" ELSE classification.severity
        severity3 == IF core THEN "critical" ELSE severity2
    IN  [classification EXCEPT
            !.severity = severity3,
            !.description = @
                \o (IF deprecated THEN <<" (previously deprecated)">> ELSE <<>>)
                \o (IF core THEN <<" (core functionality)">> ELSE <<>>)]

_apply_removal_rules(element, classification) ==
    LET private == StartsWith(Chars[element], Chars["_"])
        deprecated == Contains(Lower(Chars[element]), Chars["deprecated"])
        core == MatchesAny(element, {"collector", "filler", "data", "csv", "operations"})
        severity1 == IF private THEN "high" ELSE classification.severity
        severity2 == IF deprecated THEN "medium" ELSE severity1
        severity3 == IF core THEN "critical" ELSE severity2
    IN  [classification EXCEPT
            !.severity = severity3,
            !.description = @
                \o (IF private THEN <<" (internal/private element)">> ELSE <<>>)
                \o (IF deprecated THEN <<" (previously deprecated)">> ELSE <<>>)
                \o (IF core THEN <<" (core functionality)">> ELSE <<>>)]

NoDetails ==
    [parameter_changes |-> <<>>, return_type_changed |-> FALSE,
     type_changed |-> FALSE, module_changed |-> FALSE, inheritance_changes |-> <<>>]

_classify_additions(added_elements) ==
    [i \in DOMAIN added_elements |->
        _apply_addition_rules(added_elements[i],
            [element |-> added_elements[i],
             change_type |-> "addition",
             severity |-> "info",
             compatibility_impact |-> "compatible",
             description |-> <<"New API element added">>,
             breaking |-> FALSE,
             migration_notes |-> NoneV,
             change_details |-> NoDetails])]

_classify_removals(removed_elements) ==
    [i \in DOMAIN removed_elements |->
        _apply_removal_rules(removed_elements[i],
            [element |-> removed_elements[i],
             change_type |-> "removal",
             severity |-> "critical",
             compatibility_impact |-> "breaking",
             description |-> <<"API element removed">>,
             breaking |-> TRUE,
             migration_notes |-> "Remove usage - no longer available",
             change_details |-> NoDetails])]

Optional(f, element) == IF element \in DOMAIN f THEN <<f[element]>> ELSE <<>>

_analyze_element_changes(element, api_changes) ==
    [parameter_changes |-> Optional(api_changes.parameter_changes, element),
     return_type_changed |-> element \in DOMAIN api_changes.return_type_changes,
     type_changed |-> element \in DOMAIN api_changes.type_changes,
     module_changed |-> element \in DOMAIN api_changes.module_changes,
     inheritance_changes |-> Optional(api_changes.inheritance_changes, element)]

Indicator(what, severity) == [what |-> what, param |-> NoneV, severity |-> severity]

ParamIndicator(what, param, severity) == [what |-> what, param |-> param, severity |-> severity]

\* breaking_indicators paired with the severity_factors appended with them.
BreakingIndicators(change_details) ==
    LET pcs == change_details.parameter_changes
        ihs == change_details.inheritance_changes
    IN  (IF pcs # <<>> THEN
            LET param_changes == pcs[1]
                modified == SortedSeq(DOMAIN param_changes.modified_parameters)
            IN  (IF param_changes.removed_parameters # <<>>
                 THEN <<Indicator("Parameters removed", "critical")>> ELSE <<>>)
                \o (IF param_changes.added_parameters # <<>>
                    THEN <<Indicator("Parameters added", "medium")>> ELSE <<>>)
                \o Flatten([i \in DOMAIN modified |->
                    (IF "annotation" \in DOMAIN param_changes.modified_parameters[modified[i]]
                     THEN <<ParamIndicator("Parameter type changed", modified[i], "high")>>
                     ELSE <<>>)
                    \o (IF "kind" \in DOMAIN param_changes.modified_parameters[modified[i]]
                        THEN <<ParamIndicator("Parameter kind changed", modified[i], "high")>>
                        ELSE <<>>)])
         ELSE <<>>)
        \o (IF change_details.return_type_changed
            THEN <<Indicator("Return type changed", "high")>> ELSE <<>>)
        \o (IF ihs # <<>> THEN
                (IF ihs[1].removed_bases # <<>>
                 THEN <<Indicator("Base classes removed", "high")>> ELSE <<>>)
                \o (IF ihs[1].added_bases # <<>>
                    THEN <<Indicator("Base classes added", "low")>> ELSE <<>>)
            ELSE <<>>)
        \o (IF change_details.type_changed
            THEN <<Indicator("Element type changed", "critical")>> ELSE <<>>)
        \o (IF change_details.module_changed
            THEN <<Indicator("Module location changed", "medium")>> ELSE <<>>)

\* "Use highest severity" of _apply_modification_rules.
HighestSeverity_FirstFactor(indicators) == indicators[1].severity

HighestSeverity(indicators) ==
    LET severity_factors == {indicators[i].severity : i \in DOMAIN indicators}
    IN  IF "critical" \in severity_factors THEN "critical"
        ELSE IF "high" \in severity_factors THEN "high"
        ELSE "medium"

\* _apply_modification_rules without its else branch.
_apply_modification_rules_KeepsUnknown(element, classification, change_details) ==
    LET breaking_indicators == BreakingIndicators(change_details)
    IN  IF breaking_indicators # <<>>
        THEN [classification EXCEPT
                !.breaking = TRUE,
                !.compatibility_impact = "breaking",
                !.severity = HighestSeverity(breaking_indicators),
                !.description = @ \o [i \in DOMAIN breaking_indicators |->
                                        breaking_indicators[i].what],
                !.migration_notes = "Migration required"]
        ELSE classification

_apply_modification_rules(element, classification, change_details) ==
    LET breaking_indicators == BreakingIndicators(change_details)
    IN  IF breaking_indicators # <<>>
        THEN [classification EXCEPT
                !.breaking = TRUE,
                !.compatibility_impact = "breaking",
                !.severity = HighestSeverity(breaking_indicators),
                !.description = @ \o [i \in DOMAIN breaking_indicators |->
                                        breaking_indicators[i].what],
                !.migration_notes = "Migration required"]
        ELSE [classification EXCEPT
                !.compatibility_impact = "compatible",
                !.severity = "low",
                !.description = @ \o <<" - non-breaking changes">>]

_classify_modifications(modified_elements, api_changes) ==
    [i \in DOMAIN modified_elements |->
        LET change_details == _analyze_element_changes(modified_elements[i], api_changes)
        IN  _apply_modification_rules(modified_elements[i],
                [element |-> modified_elements[i],
                 change_type |-> "modification",
                 severity |-> "medium",
                 compatibility_impact |-> "unknown",
                 description |-> <<"API element modified">>,
                 breaking |-> FALSE,
                 migration_notes |-> NoneV,
                 change_details |-> change_details],
                change_details)]

\* A counter dict: only the keys that were counted are present.
CountBy(all_changes, key) ==
    [k \in {all_changes[i][key] : i \in DOMAIN all_changes} |->
        Cardinality({i \in DOMAIN all_changes : all_changes[i][key] = k})]

\* [c["element"] for c in all_changes if ...]: the elements at the indices
\* in `selected`, in the order of the list.
SelectElements(all_changes, selected) ==
    LET F[i \in 0..Len(all_changes)] ==
            IF i = 0 THEN <<>>
            ELSE IF i \in selected THEN F[i - 1] \o <<all_changes[i].element>>
            ELSE F[i - 1]
    IN  F[Len(all_changes)]

_generate_classification_summary(additions, removals, modifications) ==
    LET all_changes == additions \o removals \o modifications
        breaking == {i \in DOMAIN all_changes : all_changes[i].breaking}
        critical == {i \in DOMAIN all_changes : all_changes[i].severity = "critical"}
        with_notes == {i \in DOMAIN all_changes : Truthy(all_changes[i].migration_notes)}
    IN  [total_changes |-> Len(all_changes),
         by_type |-> CountBy(all_changes, "change_type"),
         by_severity |-> CountBy(all_changes, "severity"),
         by_compatibility |-> CountBy(all_changes, "compatibility_impact"),
         breaking_changes_count |-> Len(SelectElements(all_changes, breaking)),
         critical_changes |-> SelectElements(all_changes, critical),
         migration_required |-> SelectElements(all_changes, with_notes)]

_assess_overall_compatibility(classified_changes) ==
    IF classified_changes.summary.breaking_changes_count > 0
    THEN "breaking" ELSE "compatible"

\* classify_changes: the diff_result with the two keys it adds.
classify_changes(diff_result) ==
    LET additions == _classify_additions(diff_result.signature_changes.added)
        removals == _classify_removals(diff_result.signature_changes.removed)
        modifications == _classify_modifications(diff_result.signature_changes.modified,
                                                 diff_result.api_changes)
        classified_changes ==
            [additions |-> additions, removals |-> removals,
             modifications |-> modifications,
             summary |-> _generate_classification_summary(additions, removals,
                                                          modifications)]
    IN  [k \in DOMAIN diff_result \cup {"classified_changes", "compatibility_impact"} |->
            IF k = "classified_changes" THEN classified_changes
            ELSE IF k = "compatibility_impact"
            THEN _assess_overall_compatibility(classified_changes)
            ELSE diff_result[k]]

\* dict.get(key, default)
GetOr(d, key, default) == IF key \in DOMAIN d THEN d[key] ELSE default

\* suggest_version_bump looking at the additions before the breaking changes.
suggest_version_bump_AdditionsFirst(classified_changes, current_version) ==
    LET summary == GetOr(classified_changes, "summary", <<>>)
        breaking_count == GetOr(summary, "breaking_changes_count", 0)
        total_changes == GetOr(summary, "total_changes", 0)
        additions == GetOr(GetOr(summary, "by_type", <<>>), "addition", 0)
    IN  [current_version |-> current_version,
         suggested_bump |-> IF additions > 0 THEN "minor"
                            ELSE IF breaking_count > 0 THEN "major"
                            ELSE IF total_changes > 0 THEN "patch"
                            ELSE NoneV,
         breaking_changes |-> breaking_count,
         total_changes |-> total_changes,
         critical_changes |-> Len(GetOr(summary, "critical_changes", <<>>)),
         migration_required |-> Len(GetOr(summary, "migration_required", <<>>))]

suggest_version_bump(classified_changes, current_version) ==
    LET summary == GetOr(classified_changes, "summary", <<>>)
        breaking_count == GetOr(summary, "breaking_changes_count", 0)
        total_changes == GetOr(summary, "total_changes", 0)
        additions == GetOr(GetOr(summary, "by_type", <<>>), "addition", 0)
    IN  [current_version |-> current_version,
         suggested_bump |-> IF breaking_count > 0 THEN "major"
                            ELSE IF additions > 0 THEN "minor"
                            ELSE IF total_changes > 0 THEN "patch"
                            ELSE NoneV,
         breaking_changes |-> breaking_count,
         total_changes |-> total_changes,
         critical_changes |-> Len(GetOr(summary, "critical_changes", <<>>)),
         migration_required |-> Len(GetOr(summary, "migration_required", <<>>))]

(***************************************************************************)
(* The API descriptions the operations are run on: one function `foo` and   *)
(* one class `Bar`, each in the variants that differ from the first in one  *)
(* respect, and plain elements that are only added or removed.              *)
(***************************************************************************)
Pa == <<"a", Param("POSITIONAL_OR_KEYWORD", "int", NoneV)>>

Pb == <<"b", Param("POSITIONAL_OR_KEYWORD", NoneV, "1")>>

Pc == <<"c", Param("KEYWORD_ONLY", NoneV, "None")>>

FooVariants ==
    [base        |-> Function("pkg.core", "(a: int, b=1) -> int", <<Pa, Pb>>, "int",
                              "Fetch rows. Blocks until done"),
     doc_tail    |-> Function("pkg.core", "(a: int, b=1) -> int", <<Pa, Pb>>, "int",
                              "Fetch rows. Returns early"),
     doc_summary |-> Function("pkg.core", "(a: int, b=1) -> int", <<Pa, Pb>>, "int",
                              "Fetch all rows"),
     param_removed |-> Function("pkg.core", "(a: int) -> int", <<Pa>>, "int",
                              "Fetch rows. Blocks until done"),
     param_added |-> Function("pkg.core", "(a: int, b=1, *, c=None) -> int", <<Pa, Pb, Pc>>,
                              "int", "Fetch rows. Blocks until done"),
     param_swapped |-> Function("pkg.core", "(a: int, *, c=None) -> int", <<Pa, Pc>>,
                              "int", "Fetch rows. Blocks until done"),
     annotation  |-> Function("pkg.core", "(a: str, b=1) -> int",
                              <<<<"a", Param("POSITIONAL_OR_KEYWORD", "str", NoneV)>>, Pb>>,
                              "int", "Fetch rows. Blocks until done"),
     kind        |-> Function("pkg.core", "(*, a: int, b=1) -> int",
                              <<<<"a", Param("KEYWORD_ONLY", "int", NoneV)>>, Pb>>,
                              "int", "Fetch rows. Blocks until done"),
     default     |-> Function("pkg.core", "(a: int, b=2) -> int",
                              <<Pa, <<"b", Param("POSITIONAL_OR_KEYWORD", NoneV, "2")>>>>,
                              "int", "Fetch rows. Blocks until done"),
     return_type |-> Function("pkg.core", "(a: int, b=1) -> str", <<Pa, Pb>>, "str",
                              "Fetch rows. Blocks until done"),
     moved       |-> Function("pkg.moved", "(a: int, b=1) -> int", <<Pa, Pb>>, "int",
                              "Fetch rows. Blocks until done"),
     moved_doc   |-> Function("pkg.moved", "(a: int, b=1) -> int", <<Pa, Pb>>, "int",
                              "Fetch all rows"),
     added_annotation |-> Function("pkg.core", "(a: str, b=1, *, c=None) -> int",
                              <<<<"a", Param("POSITIONAL_OR_KEYWORD", "str", NoneV)>>, Pb, Pc>>,
                              "int", "Fetch rows. Blocks until done"),
     as_class    |-> Class("foo", "pkg.core", <<>>, <<>>, "Fetch rows. Blocks until done"),
     entries_only |-> Function("pkg.core", "(a: int, b=1) -> int",
                              <<<<"a", Param("POSITIONAL_OR_KEYWORD", "str", NoneV)>>>>,
                              "str", "Fetch rows. Blocks until done")]

BarVariants ==
    [base         |-> Class("Bar", "pkg.core", <<"Base", "Mixin">>,
                            <<<<"run", Method("(self)", "")>>>>, ""),
     base_removed |-> Class("Bar", "pkg.core", <<"Base">>,
                            <<<<"run", Method("(self)", "")>>>>, ""),
     base_added   |-> Class("Bar", "pkg.core", <<"Base", "Mixin", "dict">>,
                            <<<<"run", Method("(self)", "")>>>>, ""),
     method_sig   |-> Class("Bar", "pkg.core", <<"Base", "Mixin">>,
                            <<<<"run", Method("(self, fast)", "")>>>>, ""),
     two_methods  |-> Class("Bar", "pkg.core", <<"Base", "Mixin">>,
                            <<<<"run", Method("(self)", "")>>,
                              <<"stop", Method("(self)", "Fetch all rows")>>>>, "")]

\* public_api in the order of the names given; `all_py` is the Python type
\* of the package's __all__.
ApiData(all_py, public_api) ==
    [package_info |->
        [name |-> "pkg",
         all |-> [py |-> all_py,
                  items |-> [i \in DOMAIN public_api |-> public_api[i][1]]]],
     public_api |-> public_api]

\* The elements chosen: a variant of foo or "-", a variant of Bar or "-",
\* and plain variables.
Elements(foo, bar, extras) ==
    (IF foo = "-" THEN <<>> ELSE <<<<"foo", FooVariants[foo]>>>>)
    \o (IF bar = "-" THEN <<>> ELSE <<<<"Bar", BarVariants[bar]>>>>)
    \o [i \in DOMAIN extras |-> <<extras[i], Variable("pkg.core")>>]

(***************************************************************************)
(* The APIDiffer as a state machine.  `last` records the latest call and    *)
(* what it returned.                                                        *)
(***************************************************************************)
MaxWrites == 2

MaxDiffs == 1

Versions == {"1.0_rc1", "1.0"}

\* The api_data values snapshots are created from in Spec.
ApiPool ==
    {ApiData("list", Elements("base", "-", <<>>)),
     ApiData("tuple", Elements("param_removed", "base", <<"new_helper">>))}

Init ==
    /\ snapshots = <<>>
    /\ diffs = {}
    /\ db = _init_database
    /\ stubs = NoStubs
    /\ hooks = NoHooks
    /\ today = 1
    /\ writes = 0
    /\ last = [op |-> "init"]

\* datetime.now() is the date last seen or a later one.
Now == {d \in DOMAIN DateStr : today <= d /\ d <= today + 1}

create_api_snapshot(api_data, version) ==
    /\ writes < MaxWrites
    /\ \E day \in Now :
        /\ snapshots' = StoreAfterCreate(snapshots, api_data, version, day, writes + 1)
        /\ today' = day
        /\ writes' = writes + 1
        /\ last' = [op |-> "create", version |-> version, api_data |-> api_data,
                    signature_hashes |-> hash_api_signature("strict", api_data)]
    /\ UNCHANGED <<diffs, db, stubs, hooks>>

\* A call of _load_latest_snapshot; `created` is the create_api_snapshot
\* call it directly follows, if any.
LoadLatest(version) ==
    /\ last' = [op |-> "load", version |-> version,
                result |-> _load_latest_snapshot(snapshots, version),
                created |-> IF last.op = "create" THEN <<last>> ELSE <<>>]
    /\ UNCHANGED <<snapshots, diffs, today, writes, db, stubs, hooks>>

\* _save_diff: the file is named by both versions and the time.
_save_diff(files, old_version, new_version) ==
    files \cup {<<old_version, new_version, DateStr[today]>>}

CompareFailed(old_version, new_version) ==
    [op |-> "compare", old_version |-> old_version, new_version |-> new_version,
     error |-> "ValueError", result |-> <<>>]

CompareReturned(old_version, new_version, diff_result) ==
    [op |-> "compare", old_version |-> old_version, new_version |-> new_version,
     error |-> NoneV, result |-> <<diff_result>>]

compare_versions_SaveFirst(old_version, new_version) ==
    LET old_snapshot == _load_latest_snapshot(snapshots, old_version)
        new_snapshot == _load_latest_snapshot(snapshots, new_version)
    IN  /\ Cardinality(diffs) < MaxDiffs
        /\ diffs' = _save_diff(diffs, old_version, new_version)
        /\ IF old_snapshot = <<>> \/ new_snapshot = <<>>
           THEN last' = CompareFailed(old_version, new_version)
           ELSE last' = CompareReturned(old_version, new_version,
                            DiffResult(old_version, new_version,
                                       old_snapshot[1], new_snapshot[1]))
        /\ UNCHANGED <<snapshots, today, writes, db, stubs, hooks>>

compare_versions(old_version, new_version) ==
    LET old_snapshot == _load_latest_snapshot(snapshots, old_version)
        new_snapshot == _load_latest_snapshot(snapshots, new_version)
    IN  /\ Cardinality(diffs) < MaxDiffs
        /\ IF old_snapshot = <<>> \/ new_snapshot = <<>>
           THEN /\ last' = CompareFailed(old_version, new_version)
                /\ UNCHANGED diffs
           ELSE /\ last' = CompareReturned(old_version, new_version,
                                DiffResult(old_version, new_version,
                                           old_snapshot[1], new_snapshot[1]))
                /\ diffs' = _save_diff(diffs, old_version, new_version)
        /\ UNCHANGED <<snapshots, today, writes, db, stubs, hooks>>

CreateSnapshot == \E api_data \in ApiPool, version \in Versions :
                      create_api_snapshot(api_data, version)

Load == \E version \in Versions : LoadLatest(version)

CompareVersions == \E old_version \in Versions, new_version \in Versions :
                       compare_versions(old_version, new_version)

Next == CreateSnapshot \/ Load \/ CompareVersions

Spec == Init /\ [][Next]_vars

(***************************************************************************)
(* The comparison pipeline: two versions are in the store, compare_versions *)
(* diffs them, classify_changes classifies the diff and                     *)
(* suggest_version_bump reads the classification.                           *)
(***************************************************************************)
FooKeys == {"-", "base", "doc_tail", "doc_summary", "param_removed", "param_added",
            "param_swapped", "annotation", "kind", "default", "return_type", "moved",
            "moved_doc", "added_annotation", "as_class"}

BarKeys == {"-", "base", "base_removed", "base_added", "method_sig", "two_methods"}

ExtraSets == {<<"new_helper", "AbstractBase">>,
              <<"collector_run", "_private", "old_deprecated", "deprecated_data">>,
              <<"DataFiller", "_deprecated_cache", "_csv">>,
              <<"__init__", "required", "mandatory", "interface", "protocol">>,
              <<"collector", "filler", "data", "csv", "operations", "deprecated">>}

\* <<old, new>>: the element choices of the two versions.  Each pair is also
\* compared from new to old.
PairPool ==
    {<<<<"base", "base", <<>>>>, <<f, "base", <<>>>>>> : f \in FooKeys}
    \cup {<<<<"base", "base", <<>>>>, <<"base", b, <<>>>>>> : b \in BarKeys}
    \cup {<<<<"base", "base", <<>>>>, <<"base", "base", e>>>> : e \in ExtraSets}
    \cup {<<<<"base", "-", <<>>>>, <<f, "base", <<>>>>>> :
            f \in {"base", "doc_summary", "param_removed"}}
    \cup {<<<<"base", "base", <<"new_helper", "_private">>>>,
            <<"param_swapped", "base_removed", <<"_private", "collector_run">>>>>>,
          <<<<"moved", "base_added", <<"old_deprecated">>>>,
            <<"return_type", "base_removed", <<"new_helper">>>>>>,
          <<<<"-", "-", <<>>>>, <<"-", "-", <<"new_helper", "AbstractBase">>>>>>}

PoolApi(choice) == ApiData("list", Elements(choice[1], choice[2], choice[3]))

InitPipeline ==
    /\ \E pair \in PairPool :
        snapshots = StoreAfterCreate(
                        StoreAfterCreate(<<>>, PoolApi(pair[1]), "1.0_rc1", 1, 1),
                        PoolApi(pair[2]), "1.0", 1, 2)
    /\ diffs = {}
    /\ db = _init_database
    /\ stubs = NoStubs
    /\ hooks = NoHooks
    /\ today = 1
    /\ writes = 2
    /\ last = [op |-> "init"]

\* classify_changes on the diff compare_versions has just returned.
Classify ==
    /\ last.op = "compare"
    /\ last.error = NoneV
    /\ last' = [op |-> "classify", diff_result |-> last.result[1],
                result |-> classify_changes(last.result[1])]
    /\ UNCHANGED <<snapshots, diffs, today, writes, db, stubs, hooks>>

\* suggest_version_bump, given either the classified_changes dict or the
\* whole dict classify_changes returned.
SuggestBump ==
    /\ last.op = "classify"
    /\ \E arg \in {"classified_changes", "result"} :
        LET given == IF arg = "classified_changes"
                     THEN last.result.classified_changes ELSE last.result
        IN  last' = [op |-> "bump", arg |-> arg, given |-> given,
                     result |-> suggest_version_bump(given, "1.0")]
    /\ UNCHANGED <<snapshots, diffs, today, writes, db, stubs, hooks>>

NextPipeline == CompareVersions \/ Classify \/ SuggestBump

SpecPipeline == InitPipeline /\ [][NextPipeline]_vars

(***************************************************************************)
(* Hashing: a SignatureHasher of some level is given an API description     *)
(* and the same description with its dicts filled in another order.         *)
(***************************************************************************)
SensitivityLevels == {"strict", "moderate", "relaxed"}

HashPool ==
    {ApiData("list", Elements(f, b, e)) :
        f \in {"-", "base", "param_added", "added_annotation", "as_class"},
        b \in {"base", "two_methods"},
        e \in {<<>>, <<"new_helper">>}}

Reverse(seq) == [i \in DOMAIN seq |-> seq[Len(seq) + 1 - i]]

Orders(n) == {order \in [1..n -> 1..n] : \A i, j \in 1..n : order[i] = order[j] => i = j}

\* api_data with the items of public_api in the given order and, if flip,
\* the parameters and the methods of every element in reverse order.
Reordered(api_data, order, flip) ==
    [api_data EXCEPT !.public_api =
        [i \in DOMAIN order |->
            LET item == api_data.public_api[order[i]]
            IN  <<item[1],
                  IF flip
                  THEN [item[2] EXCEPT !.parameters = Reverse(@), !.methods = Reverse(@)]
                  ELSE item[2]>>]]

InitHash ==
    /\ snapshots = <<>>
    /\ diffs = {}
    /\ db = _init_database
    /\ stubs = NoStubs
    /\ hooks = NoHooks
    /\ today = 1
    /\ writes = 0
    /\ \E api_data \in HashPool, level \in SensitivityLevels, flip \in BOOLEAN :
        \E order \in Orders(Len(api_data.public_api)) :
            last = [op |-> "given", sensitivity_level |-> level, api_data |-> api_data,
                    reordered |-> Reordered(api_data, order, flip)]

\* hash_api_signature on both descriptions.
HashApi ==
    /\ last.op = "given"
    /\ last' = [op |-> "hash", sensitivity_level |-> last.sensitivity_level,
                api_data |-> last.api_data, reordered |-> last.reordered,
                hashes |-> hash_api_signature(last.sensitivity_level, last.api_data),
                reordered_hashes |-> hash_api_signature(last.sensitivity_level, last.reordered)]
    /\ UNCHANGED <<snapshots, diffs, today, writes, db, stubs, hooks>>

\* compare_signatures on the two results.
CompareHashes ==
    /\ last.op = "hash"
    /\ last' = [op |-> "compared", sensitivity_level |-> last.sensitivity_level,
                api_data |-> last.api_data, reordered |-> last.reordered,
                changes |-> compare_signatures(last.hashes, last.reordered_hashes)]
    /\ UNCHANGED <<snapshots, diffs, today, writes, db, stubs, hooks>>

NextHash == HashApi \/ CompareHashes

SpecHash == InitHash /\ [][NextHash]_vars

(***************************************************************************)
(* Properties of the comparison (SpecPipeline).                             *)
(***************************************************************************)
\* A compare_versions call has returned a diff.
Compared == last.op = "compare" /\ last.error = NoneV

\* The snapshots that call loaded.
OldLoaded == _load_latest_snapshot(snapshots, last.old_version)[1]

NewLoaded == _load_latest_snapshot(snapshots, last.new_version)[1]

\* seq lists every member of set once.
ListsExactly(seq, set) == Range(seq) = set /\ Len(seq) = Cardinality(set)

\* C1: compare_signatures returns as added the names only in new, as removed
\* the names only in old, as modified the names in both whose hashes differ
\* and as unchanged the names in both whose hashes are equal; for
\* old = {foo: a} and new = {foo: b, Bar: c} with a # b that is
\* added = [Bar], removed = [], modified = [foo].
C1_CompareSignatures ==
    Compared =>
        LET old == OldLoaded.signature_hashes
            new == NewLoaded.signature_hashes
            changes == last.result[1].signature_changes
        IN  /\ ListsExactly(changes.added, DOMAIN new \ DOMAIN old)
            /\ ListsExactly(changes.removed, DOMAIN old \ DOMAIN new)
            /\ ListsExactly(changes.modified,
                    {e \in DOMAIN old \cap DOMAIN new : old[e] # new[e]})
            /\ ListsExactly(changes.unchanged,
                    {e \in DOMAIN old \cap DOMAIN new : old[e] = new[e]})
            /\ (/\ DOMAIN old = {"foo"}
                /\ DOMAIN new = {"foo", "Bar"}
                /\ old["foo"] # new["foo"])
               => /\ changes.added = <<"Bar">>
                  /\ changes.removed = <<>>
                  /\ changes.modified = <<"foo">>

C1_Witness ==
    /\ Compared
    /\ DOMAIN OldLoaded.signature_hashes = {"foo"}
    /\ DOMAIN NewLoaded.signature_hashes = {"foo", "Bar"}
    /\ OldLoaded.signature_hashes["foo"] # NewLoaded.signature_hashes["foo"]
    /\ last.result[1].signature_changes.added = <<"Bar">>
    /\ last.result[1].signature_changes.modified = <<"foo">>

IsCallable(element) == element.type \in {"function", "method"}

\* C2: breaking_changes holds exactly one removal/high entry per removed
\* element, one signature_change/medium entry per element whose hash
\* changed, one parameter_removal/high entry per function that lost
\* parameters, one parameter_addition/medium entry per function that gained
\* parameters and one type_change/high entry per element whose type changed,
\* and nothing else.
C2_BreakingChangesExact ==
    Compared =>
        LET old_api == OldLoaded.api_data.public_api
            new_api == NewLoaded.api_data.public_api
            old_hashes == OldLoaded.signature_hashes
            new_hashes == NewLoaded.signature_hashes
            common == Keys(old_api) \cap Keys(new_api)
            functions == {e \in common : /\ IsCallable(Get(old_api, e))
                                         /\ IsCallable(Get(new_api, e))}
            OldParams(e) == Keys(Get(old_api, e).parameters)
            NewParams(e) == Keys(Get(new_api, e).parameters)
            expected ==
                {BreakingChange("removal", e, "high") :
                    e \in Keys(old_api) \ Keys(new_api)}
                \cup {BreakingChange("signature_change", e, "medium") :
                    e \in {x \in common : old_hashes[x] # new_hashes[x]}}
                \cup {BreakingChange("parameter_removal", e, "high") :
                    e \in {f \in functions : OldParams(f) \ NewParams(f) # {}}}
                \cup {BreakingChange("parameter_addition", e, "medium") :
                    e \in {f \in functions : NewParams(f) \ OldParams(f) # {}}}
                \cup {BreakingChange("type_change", e, "high") :
                    e \in {x \in common : Get(old_api, x).type # Get(new_api, x).type}}
        IN  ListsExactly(last.result[1].breaking_changes, expected)

C2_Witness ==
    /\ Compared
    /\ \A type \in {"removal", "signature_change", "parameter_removal",
                    "parameter_addition"} :
        \E i \in DOMAIN last.result[1].breaking_changes :
            last.result[1].breaking_changes[i].type = type

\* C3: in a returned diff the compatibility assessment is "breaking" exactly
\* when breaking_changes is not empty and "compatible" otherwise,
\* breaking_changes_count is the length of that list and total_changes is
\* the number of added, removed and modified elements.
C3_Summary ==
    Compared =>
        LET diff == last.result[1]
        IN  /\ diff.summary.compatibility_assessment \in {"breaking", "compatible"}
            /\ diff.summary.compatibility_assessment = "breaking"
                    <=> Len(diff.breaking_changes) > 0
            /\ diff.summary.breaking_changes_count = Len(diff.breaking_changes)
            /\ diff.summary.total_changes
                    = Len(diff.signature_changes.added)
                      + Len(diff.signature_changes.removed)
                      + Len(diff.signature_changes.modified)

C3_Witness ==
    /\ Compared
    /\ last.result[1].summary.compatibility_assessment = "breaking"
    /\ last.result[1].summary.breaking_changes_count
            > last.result[1].summary.total_changes

\* C4: given a classification, suggest_version_bump suggests "major" when
\* breaking_changes_count > 0, else "minor" when there is an addition, else
\* "patch" when total_changes > 0, else nothing; no breaking change and two
\* additions as the only changes give "minor".
C4_VersionBump ==
    (last.op = "bump" /\ last.arg = "classified_changes") =>
        LET summary == last.given.summary
            additions == Len(last.given.additions)
            bump == last.result.suggested_bump
        IN  /\ bump = IF summary.breaking_changes_count > 0 THEN "major"
                      ELSE IF additions > 0 THEN "minor"
                      ELSE IF summary.total_changes > 0 THEN "patch"
                      ELSE NoneV
            /\ (/\ summary.breaking_changes_count = 0
                /\ additions = 2
                /\ summary.total_changes = 2) => bump = "minor"

C4_Witness ==
    /\ last.op = "bump"
    /\ last.arg = "classified_changes"
    /\ last.given.summary.breaking_changes_count = 0
    /\ Len(last.given.additions) = 2
    /\ last.given.summary.total_changes = 2
    /\ last.result.suggested_bump = "minor"

(***************************************************************************)
(* Properties of the classification (SpecPipeline).                         *)
(***************************************************************************)
Classified == last.op = "classify"

NameContains(element, pattern) == Contains(Lower(Chars[element]), Chars[pattern])

IsDeprecatedName(element) == NameContains(element, "deprecated")

IsCoreName(element) ==
    \E pattern \in {"collector", "filler", "data", "csv", "operations"} :
        NameContains(element, pattern)

IsPrivateName(element) == Chars[element][1] = "_"

\* The removals are classified one by one, in the order of the diff, each
\* as breaking and with the severity the table `severity` gives its name.
RemovalsClassified(severity) ==
    LET removed == last.diff_result.signature_changes.removed
        removals == last.result.classified_changes.removals
    IN  /\ Len(removals) = Len(removed)
        /\ \A i \in DOMAIN removals :
            /\ removals[i].element = removed[i]
            /\ removals[i].change_type = "removal"
            /\ removals[i].breaking = TRUE
            /\ removals[i].compatibility_impact = "breaking"
            /\ removals[i].severity = severity[removed[i]]

\* The severity the specification states for a removal.
StatedRemovalSeverity(element) ==
    IF IsCoreName(element) THEN "critical"
    ELSE IF IsDeprecatedName(element) THEN "medium"
    ELSE "critical"

\* The same, with the rule for names that start with an underscore.
RemovalSeverity(element) ==
    IF IsCoreName(element) THEN "critical"
    ELSE IF IsDeprecatedName(element) THEN "medium"
    ELSE IF IsPrivateName(element) THEN "high"
    ELSE "critical"

\* C5, as stated: every removed element is classified as breaking, with
\* severity critical when its name contains a core substring, medium when it
\* contains "deprecated" and no core substring, and critical when it
\* contains neither.
C5_RemovalsAsStated ==
    Classified =>
        RemovalsClassified([e \in Range(last.diff_result.signature_changes.removed) |->
                                StatedRemovalSeverity(e)])

\* C5, amended: every removed element is classified as breaking, with
\* severity critical when its name contains a core substring, else medium
\* when it contains "deprecated", else high when it starts with "_", and
\* critical otherwise.
C5_Removals ==
    Classified =>
        RemovalsClassified([e \in Range(last.diff_result.signature_changes.removed) |->
                                RemovalSeverity(e)])

C5_Witness ==
    /\ Classified
    /\ \E i, j, k \in DOMAIN last.result.classified_changes.removals :
        LET removals == last.result.classified_changes.removals
        IN  /\ removals[i].element = "_private" /\ removals[i].severity = "high"
            /\ removals[j].element = "collector_run" /\ removals[j].severity = "critical"
            /\ removals[k].element = "old_deprecated" /\ removals[k].severity = "medium"

\* C6: every added element is classified as compatible and not breaking,
\* with severity low when its lower-cased name contains "__init__",
\* "required", "mandatory", "abstract", "interface" or "protocol" and info
\* otherwise; "new_helper" is info.
C6_Additions ==
    Classified =>
        LET added == last.diff_result.signature_changes.added
            additions == last.result.classified_changes.additions
        IN  /\ Len(additions) = Len(added)
            /\ \A i \in DOMAIN additions :
                /\ additions[i].element = added[i]
                /\ additions[i].change_type = "addition"
                /\ additions[i].breaking = FALSE
                /\ additions[i].compatibility_impact = "compatible"
                /\ additions[i].severity =
                    IF \E pattern \in {"__init__", "required", "mandatory",
                                       "abstract", "interface", "protocol"} :
                            NameContains(added[i], pattern)
                    THEN "low" ELSE "info"
                /\ added[i] = "new_helper" => additions[i].severity = "info"

C6_Witness ==
    /\ Classified
    /\ \E i, j \in DOMAIN last.result.classified_changes.additions :
        LET additions == last.result.classified_changes.additions
        IN  /\ additions[i].element = "new_helper" /\ additions[i].severity = "info"
            /\ additions[j].element = "AbstractBase" /\ additions[j].severity = "low"
            /\ ~additions[i].breaking /\ ~additions[j].breaking

\* The structural changes the diff records for an element.
ParametersRemoved(element, api_changes) ==
    /\ element \in DOMAIN api_changes.parameter_changes
    /\ api_changes.parameter_changes[element].removed_parameters # <<>>

ParametersAdded(element, api_changes) ==
    /\ element \in DOMAIN api_changes.parameter_changes
    /\ api_changes.parameter_changes[element].added_parameters # <<>>

ParameterChanged(element, api_changes, what) ==
    /\ element \in DOMAIN api_changes.parameter_changes
    /\ \E p \in DOMAIN api_changes.parameter_changes[element].modified_parameters :
        what \in DOMAIN api_changes.parameter_changes[element].modified_parameters[p]

BasesRemoved(element, api_changes) ==
    /\ element \in DOMAIN api_changes.inheritance_changes
    /\ api_changes.inheritance_changes[element].removed_bases # <<>>

BasesAdded(element, api_changes) ==
    /\ element \in DOMAIN api_changes.inheritance_changes
    /\ api_changes.inheritance_changes[element].added_bases # <<>>

\* The severities of the factors observed on an element.
ObservedFactors(element, api_changes) ==
    (IF ParametersRemoved(element, api_changes) THEN {"critical"} ELSE {})
    \cup (IF ParametersAdded(element, api_changes) THEN {"medium"} ELSE {})
    \cup (IF ParameterChanged(element, api_changes, "annotation") THEN {"high"} ELSE {})
    \cup (IF ParameterChanged(element, api_changes, "kind") THEN {"high"} ELSE {})
    \cup (IF element \in DOMAIN api_changes.return_type_changes THEN {"high"} ELSE {})
    \cup (IF BasesRemoved(element, api_changes) THEN {"high"} ELSE {})
    \cup (IF BasesAdded(element, api_changes) THEN {"low"} ELSE {})
    \cup (IF element \in DOMAIN api_changes.type_changes THEN {"critical"} ELSE {})
    \cup (IF element \in DOMAIN api_changes.module_changes THEN {"medium"} ELSE {})

WorstFactor(factors) ==
    CHOOSE s \in factors :
        \A f \in factors :
            \/ s = "critical"
            \/ s = "high" /\ f # "critical"
            \/ s = "medium" /\ f \notin {"critical", "high"}
            \/ s = f

\* C7: a modified element with a removed parameter, a changed parameter
\* annotation or kind, a changed return type or a removed base class is
\* classified as breaking with the severity of the worst factor observed on
\* it (critical before high before medium); a modified element on which no
\* factor is observed is classified low, compatible and not breaking.
C7_Modifications ==
    Classified =>
        LET modified == last.diff_result.signature_changes.modified
            api_changes == last.diff_result.api_changes
            modifications == last.result.classified_changes.modifications
        IN  /\ Len(modifications) = Len(modified)
            /\ \A i \in DOMAIN modifications :
                LET e == modified[i]
                    c == modifications[i]
                IN  /\ c.element = e
                    /\ (\/ ParametersRemoved(e, api_changes)
                        \/ ParameterChanged(e, api_changes, "annotation")
                        \/ ParameterChanged(e, api_changes, "kind")
                        \/ e \in DOMAIN api_changes.return_type_changes
                        \/ BasesRemoved(e, api_changes))
                       => /\ c.breaking = TRUE
                          /\ c.compatibility_impact = "breaking"
                          /\ c.severity = WorstFactor(ObservedFactors(e, api_changes))
                    /\ ObservedFactors(e, api_changes) = {}
                       => /\ c.breaking = FALSE
                          /\ c.compatibility_impact = "compatible"
                          /\ c.severity = "low"

C7_Witness ==
    /\ Classified
    /\ \E i \in DOMAIN last.result.classified_changes.modifications :
        LET c == last.result.classified_changes.modifications[i]
        IN  /\ ObservedFactors(c.element, last.diff_result.api_changes)
                    = {"medium", "high"}
            /\ ParametersAdded(c.element, last.diff_result.api_changes)
            /\ c.severity = "high"
            /\ c.breaking

(***************************************************************************)
(* Properties of the hashing (SpecHash).                                    *)
(***************************************************************************)
\* C8: hash_api_signature gives every element the same digest whatever the
\* order of the dict keys in the API data, so comparing the hashes of a
\* description with those of a reordering of it reports no change.
C8_OrderIndependent ==
    /\ last.op = "hash" =>
        /\ DOMAIN last.reordered_hashes = DOMAIN last.hashes
        /\ \A e \in DOMAIN last.hashes : last.reordered_hashes[e] = last.hashes[e]
    /\ last.op = "compared" =>
        /\ last.changes.added = <<>>
        /\ last.changes.removed = <<>>
        /\ last.changes.modified = <<>>
        /\ Range(last.changes.unchanged) = Keys(last.api_data.public_api)

C8_Witness ==
    /\ last.op = "hash"
    /\ last.sensitivity_level = "strict"
    /\ Keys(last.api_data.public_api) = {"foo", "Bar", "new_helper"}
    /\ last.reordered.public_api[1][1] = "new_helper"
    /\ Len(Get(last.api_data.public_api, "foo").parameters) = 3
    /\ Get(last.reordered.public_api, "foo").parameters
            = Reverse(Get(last.api_data.public_api, "foo").parameters)
    /\ last.reordered_hashes["foo"] = last.hashes["foo"]

(***************************************************************************)
(* Properties of the snapshot store (Spec).                                 *)
(***************************************************************************)
\* _load_latest_snapshot(version) was called right after
\* create_api_snapshot(api_data, version).
LoadedAfterCreate ==
    /\ last.op = "load"
    /\ last.created # <<>>
    /\ last.created[1].version = last.version

\* api_data as JSON can hold it: a tuple is a list.
AsJsonValue(api_data) ==
    [api_data EXCEPT !.package_info.all = [py |-> "list", items |-> @.items]]

\* C9, as stated: after create_api_snapshot(api_data, version),
\* _load_latest_snapshot(version) returns a snapshot whose api_data equals
\* the api_data passed in and whose signature_hashes equal the hashes
\* computed at creation.
C9_RoundTripAsStated ==
    LoadedAfterCreate =>
        /\ last.result # <<>>
        /\ PyEqual(last.result[1].api_data, last.created[1].api_data)
        /\ last.result[1].signature_hashes = last.created[1].signature_hashes

\* C9, amended: the snapshot returned has the signature_hashes computed at
\* creation, and its api_data equals the api_data passed in once every tuple
\* in it is taken as a list.
C9_RoundTrip ==
    LoadedAfterCreate =>
        /\ last.result # <<>>
        /\ PyEqual(last.result[1].api_data, AsJsonValue(last.created[1].api_data))
        /\ last.result[1].signature_hashes = last.created[1].signature_hashes
        /\ last.result[1].version = last.version

C9_Witness ==
    /\ LoadedAfterCreate
    /\ Cardinality(DOMAIN snapshots) = 2
    /\ last.created[1].api_data.package_info.all.py = "tuple"
    /\ last.result[1].api_data.package_info.all.py = "list"
    /\ last.result[1].signature_hashes = last.created[1].signature_hashes

\* C10: a compare_versions call for which the old or the new snapshot cannot
\* be loaded fails with a ValueError, writes no diff file and leaves the
\* snapshot store as it was.
C10_MissingSnapshot ==
    [][(/\ last'.op = "compare"
        /\ \/ _load_latest_snapshot(snapshots, last'.old_version) = <<>>
           \/ _load_latest_snapshot(snapshots, last'.new_version) = <<>>)
       => /\ last'.error = "ValueError"
          /\ last'.result = <<>>
          /\ diffs' = diffs
          /\ snapshots' = snapshots]_vars

C10_Witness ==
    /\ last.op = "compare"
    /\ last.error = "ValueError"
    /\ _load_latest_snapshot(snapshots, last.old_version) # <<>>
    /\ _load_latest_snapshot(snapshots, last.new_version) = <<>>
    /\ diffs = {}

(***************************************************************************)
(* diffing/version_tracker.py: the VersionTracker over its sqlite database. *)
(* `db` holds the three tables.  A row keeps the columns the operations     *)
(* below read or that tell rows apart; timestamps and the parsed semver     *)
(* columns are written once and never read by these operations.             *)
(* Every operation runs in one `with sqlite3.connect(...)` block: the       *)
(* block commits when it ends normally and rolls back when it raises.       *)
(***************************************************************************)
MaxRows == 2

TrackerVersions == {"1.0", "2.0"}

\* The `changes` lists record_changes is called with.
ChangesPool ==
    {<<[type |-> "removed", element |-> "foo", severity |-> "critical"]>>,
     <<[type |-> "added", element |-> "new_helper", severity |-> "low"],
       [type |-> "modified", element |-> "Bar", severity |-> "high"]>>}

\* get_version_info: the row of version_string, <<>> for None.
get_version_info(database, version_string) ==
    LET found == {i \in DOMAIN database.versions :
                      database.versions[i].version_string = version_string}
    IN  IF found = {} THEN <<>>
        ELSE <<database.versions[CHOOSE i \in found : TRUE]>>

\* SELECT * FROM versions WHERE is_current = TRUE: the rows LIMIT 1 picks from.
CurrentRows(database) ==
    {database.versions[i] : i \in {j \in DOMAIN database.versions :
                                       database.versions[j].is_current}}

\* UPDATE versions SET is_current = FALSE
MarkNoneCurrent(rows) == [i \in DOMAIN rows |-> [rows[i] EXCEPT !.is_current = FALSE]]

TrackerCall(op, args, error, result) ==
    [op |-> op, args |-> args, error |-> error, result |-> result]

\* A call that raised before it had a value to return.
Raised(op, args, error) == [op |-> op, args |-> args, error |-> error]

\* str.split(sep) on a character sequence.
RECURSIVE Split(_, _)
Split(cs, sep) ==
    LET first == UpTo(cs, {sep})
    IN  IF Len(first) = Len(cs) THEN <<cs>>
        ELSE <<first>> \o Split(SubSeq(cs, Len(first) + 2, Len(cs)), sep)

IsDigitChar(c) == c \in DOMAIN Ord /\ Ord[c] >= 48 /\ Ord[c] <= 57

IsLetterChar(c) ==
    c \in DOMAIN Ord /\ ((Ord[c] >= 65 /\ Ord[c] <= 90) \/ (Ord[c] >= 97 /\ Ord[c] <= 122))

\* str.isdigit()
IsDigits(cs) == cs # <<>> /\ \A i \in DOMAIN cs : IsDigitChar(cs[i])

\* int(s) on a string of digits.
RECURSIVE IntOf(_)
IntOf(cs) ==
    IF cs = <<>> THEN 0
    ELSE 10 * IntOf(SubSeq(cs, 1, Len(cs) - 1)) + (Ord[cs[Len(cs)]] - 48)

\* 0|[1-9]\d*
IsNumericIdentifier(cs) == IsDigits(cs) /\ (Len(cs) = 1 \/ cs[1] # "0")

\* [0-9a-zA-Z-]+
IsIdentifierText(cs) ==
    cs # <<>> /\ \A i \in DOMAIN cs : IsDigitChar(cs[i]) \/ IsLetterChar(cs[i]) \/ cs[i] = "-"

\* 0|[1-9]\d*|\d*[a-zA-Z-][0-9a-zA-Z-]*
IsPreReleaseIdentifier(cs) ==
    IsIdentifierText(cs) /\ (IsDigits(cs) => IsNumericIdentifier(cs))

\* The optional groups of the pattern in what follows the three numbers:
\* <<>> when the group is absent, else <<its characters>>.
PreReleaseOf(rest) ==
    IF rest # <<>> /\ rest[1] = "-" THEN <<UpTo(Tail(rest), {"+"})>> ELSE <<>>

AfterPreRelease(rest) ==
    IF rest # <<>> /\ rest[1] = "-"
    THEN SubSeq(rest, Len(UpTo(Tail(rest), {"+"})) + 2, Len(rest))
    ELSE rest

BuildMetadataOf(rest) ==
    IF AfterPreRelease(rest) # <<>> THEN <<Tail(AfterPreRelease(rest))>> ELSE <<>>

PreReleaseMatches(pre) ==
    pre = <<>> \/ \A i \in DOMAIN Split(pre[1], ".") :
                      IsPreReleaseIdentifier(Split(pre[1], ".")[i])

BuildMetadataMatches(build) ==
    build = <<>> \/ \A i \in DOMAIN Split(build[1], ".") :
                        IsIdentifierText(Split(build[1], ".")[i])

SemverGroups(numbers, pre, build) ==
    IF /\ Len(numbers) = 3
       /\ \A i \in 1..3 : IsNumericIdentifier(numbers[i])
       /\ PreReleaseMatches(pre)
       /\ BuildMetadataMatches(build)
    THEN <<[major |-> IntOf(numbers[1]), minor |-> IntOf(numbers[2]),
            patch |-> IntOf(numbers[3]), pre_release |-> pre,
            build_metadata |-> build]>>
    ELSE <<>>

SemverRest(core, rest) ==
    SemverGroups(Split(core, "."), PreReleaseOf(rest), BuildMetadataOf(rest))

SemverCore(cs, core) == SemverRest(core, SubSeq(cs, Len(core) + 1, Len(cs)))

\* The groups of the semantic versioning pattern, <<>> when it does not
\* match: three numbers, then '-' and a pre-release, then '+' and build
\* metadata.
SemverMatch(cs) == SemverCore(cs, UpTo(cs, {"-", "+"}))

\* A part of the fallback split counts when it is there and all digits.
FallbackPart(parts, i) ==
    IF Len(parts) >= i /\ IsDigits(parts[i]) THEN IntOf(parts[i]) ELSE 0

ParsedVersion(version_string, match, parts) ==
    IF match = <<>>
    THEN [version_string |-> version_string,
          major |-> FallbackPart(parts, 1), minor |-> FallbackPart(parts, 2),
          patch |-> FallbackPart(parts, 3),
          pre_release |-> <<>>, build_metadata |-> <<>>,
          is_valid_semver |-> FALSE]
    ELSE [version_string |-> version_string,
          major |-> match[1].major, minor |-> match[1].minor,
          patch |-> match[1].patch,
          pre_release |-> match[1].pre_release,
          build_metadata |-> match[1].build_metadata,
          is_valid_semver |-> TRUE]

\* parse_version; pre_release and build_metadata are <<>> for None and <<cs>>
\* for the characters cs.  A string the pattern does not match is split at
\* '.' and each of its first three parts counts when it is all digits.
parse_version(version_string) ==
    ParsedVersion(version_string, SemverMatch(Chars[version_string]),
                  Split(Chars[version_string], "."))

VersionRowOf(version_id, parsed) ==
    [id |-> version_id, version_string |-> parsed.version_string,
     major |-> parsed.major, minor |-> parsed.minor, patch |-> parsed.patch,
     pre_release |-> parsed.pre_release, is_current |-> TRUE]

\* The row register_version inserts.
VersionRow(version_id, version_string) ==
    VersionRowOf(version_id, parse_version(version_string))

\* register_version without the UPDATE that clears the flag of the other rows.
register_version_KeepsCurrent(version_string) ==
    /\ IF get_version_info(db, version_string) # <<>>
       THEN /\ db' = db
            /\ last' = Raised("register_version", <<version_string>>,
                                "IntegrityError")
       ELSE LET version_id == Len(db.versions) + 1
            IN  /\ db' = [db EXCEPT !.versions =
                             Append(db.versions,
                                    VersionRow(version_id, version_string))]
                /\ last' = TrackerCall("register_version", <<version_string>>,
                                       NoneV, version_id)
    /\ UNCHANGED <<snapshots, diffs, today, writes, stubs, hooks>>

\* register_version whose UPDATE stays when the INSERT raises.
register_version_NoRollback(version_string) ==
    /\ IF get_version_info(db, version_string) # <<>>
       THEN /\ db' = [db EXCEPT !.versions = MarkNoneCurrent(db.versions)]
            /\ last' = Raised("register_version", <<version_string>>,
                                "IntegrityError")
       ELSE LET version_id == Len(db.versions) + 1
            IN  /\ db' = [db EXCEPT !.versions =
                             Append(MarkNoneCurrent(db.versions),
                                    VersionRow(version_id, version_string))]
                /\ last' = TrackerCall("register_version", <<version_string>>,
                                       NoneV, version_id)
    /\ UNCHANGED <<snapshots, diffs, today, writes, stubs, hooks>>

\* register_version.  version_string is UNIQUE: the INSERT of a registered
\* version raises IntegrityError and the UPDATE before it is rolled back.
\* The id is AUTOINCREMENT and no row is ever deleted.
register_version(version_string) ==
    /\ IF get_version_info(db, version_string) # <<>>
       THEN /\ db' = db
            /\ last' = Raised("register_version", <<version_string>>,
                                "IntegrityError")
       ELSE LET version_id == Len(db.versions) + 1
            IN  /\ db' = [db EXCEPT !.versions =
                             Append(MarkNoneCurrent(db.versions),
                                    VersionRow(version_id, version_string))]
                /\ last' = TrackerCall("register_version", <<version_string>>,
                                       NoneV, version_id)
    /\ UNCHANGED <<snapshots, diffs, today, writes, stubs, hooks>>

\* get_current_version: LIMIT 1 without ORDER BY returns any flagged row.
get_current_version ==
    /\ IF CurrentRows(db) = {}
       THEN last' = TrackerCall("get_current_version", <<>>, NoneV, <<>>)
       ELSE \E row \in CurrentRows(db) :
                last' = TrackerCall("get_current_version", <<>>, NoneV, <<row>>)
    /\ UNCHANGED <<snapshots, diffs, today, writes, db, stubs, hooks>>

ChangeRows(from_version_info, to_version_info, changes) ==
    [i \in DOMAIN changes |->
        [from_version_id |-> from_version_info.id,
         to_version_id |-> to_version_info.id,
         change_type |-> changes[i].type,
         element_name |-> changes[i].element,
         severity |-> changes[i].severity]]

\* record_changes that looks up the target version only when it inserts.
record_changes_SourceOnly(from_version, to_version, changes) ==
    LET from_version_info == get_version_info(db, from_version)
        to_version_info == get_version_info(db, to_version)
    IN  /\ Len(db.version_changes) + Len(db.deprecations) + Len(changes) <= MaxRows
        /\ IF from_version_info = <<>>
           THEN /\ db' = db
                /\ last' = TrackerCall("record_changes",
                                       <<from_version, to_version, changes>>,
                                       "ValueError", NoneV)
           ELSE /\ db' = [db EXCEPT !.version_changes =
                             @ \o ChangeRows(from_version_info[1],
                                             IF to_version_info = <<>>
                                             THEN [id |-> NoneV]
                                             ELSE to_version_info[1], changes)]
                /\ last' = TrackerCall("record_changes",
                                       <<from_version, to_version, changes>>,
                                       NoneV, NoneV)
        /\ UNCHANGED <<snapshots, diffs, today, writes, stubs, hooks>>

\* record_changes: both versions are looked up before the first INSERT.
record_changes(from_version, to_version, changes) ==
    LET from_version_info == get_version_info(db, from_version)
        to_version_info == get_version_info(db, to_version)
    IN  /\ Len(db.version_changes) + Len(db.deprecations) + Len(changes) <= MaxRows
        /\ IF from_version_info = <<>> \/ to_version_info = <<>>
           THEN /\ db' = db
                /\ last' = TrackerCall("record_changes",
                                       <<from_version, to_version, changes>>,
                                       "ValueError", NoneV)
           ELSE /\ db' = [db EXCEPT !.version_changes =
                             @ \o ChangeRows(from_version_info[1],
                                             to_version_info[1], changes)]
                /\ last' = TrackerCall("record_changes",
                                       <<from_version, to_version, changes>>,
                                       NoneV, NoneV)
        /\ UNCHANGED <<snapshots, diffs, today, writes, stubs, hooks>>

\* add_deprecation.  A removal target that is given but not registered is
\* stored as NULL (`if removal_version_info:` has no else branch); the column
\* removal_target_version_id holds <<>> for NULL and <<id>> for an id.
add_deprecation(element_name, deprecated_in_version, removal_target_version) ==
    LET deprecated_version_info == get_version_info(db, deprecated_in_version)
        removal_version_info ==
            IF removal_target_version = NoneV THEN <<>>
            ELSE get_version_info(db, removal_target_version)
        removal_version_id ==
            IF removal_version_info = <<>> THEN <<>> ELSE <<removal_version_info[1].id>>
    IN  /\ Len(db.version_changes) + Len(db.deprecations) + 1 <= MaxRows
        /\ IF deprecated_version_info = <<>>
           THEN /\ db' = db
                /\ last' = TrackerCall("add_deprecation",
                                       <<element_name, deprecated_in_version,
                                         removal_target_version>>,
                                       "ValueError", NoneV)
           ELSE /\ db' = [db EXCEPT !.deprecations =
                             Append(@, [element_name |-> element_name,
                                        deprecated_in_version_id |->
                                            deprecated_version_info[1].id,
                                        removal_target_version_id |->
                                            removal_version_id])]
                /\ last' = TrackerCall("add_deprecation",
                                       <<element_name, deprecated_in_version,
                                         removal_target_version>>,
                                       NoneV, NoneV)
        /\ UNCHANGED <<snapshots, diffs, today, writes, stubs, hooks>>

RegisterVersion == \E version_string \in TrackerVersions : register_version(version_string)

GetCurrentVersion == get_current_version

RecordChanges == \E from_version \in TrackerVersions, to_version \in TrackerVersions,
                    changes \in ChangesPool :
                     record_changes(from_version, to_version, changes)

AddDeprecation == \E deprecated_in_version \in TrackerVersions,
                     removal_target_version \in TrackerVersions \cup {NoneV} :
                      add_deprecation("foo", deprecated_in_version, removal_target_version)

NextTracker == RegisterVersion \/ GetCurrentVersion \/ RecordChanges \/ AddDeprecation

SpecTracker == Init /\ [][NextTracker]_vars

Registered(database) ==
    {database.versions[i].version_string : i \in DOMAIN database.versions}

CompareParsed(v1, v2) ==
    IF v1.major # v2.major THEN (IF v1.major < v2.major THEN -1 ELSE 1)
    ELSE IF v1.minor # v2.minor THEN (IF v1.minor < v2.minor THEN -1 ELSE 1)
    ELSE IF v1.patch # v2.patch THEN (IF v1.patch < v2.patch THEN -1 ELSE 1)
    ELSE IF v1.pre_release = <<>> /\ v2.pre_release = <<>> THEN 0
    ELSE IF v1.pre_release = <<>> THEN 1
    ELSE IF v2.pre_release = <<>> THEN -1
    ELSE IF CharsLess(v1.pre_release[1], v2.pre_release[1]) THEN -1
    ELSE IF CharsLess(v2.pre_release[1], v1.pre_release[1]) THEN 1
    ELSE 0

\* VersionTracker.compare_versions: -1, 0 or 1.  The numbers decide first;
\* with equal numbers a release is above a pre-release, and two pre-releases
\* compare as strings.
VersionTracker_compare_versions(version1, version2) ==
    CompareParsed(parse_version(version1), parse_version(version2))

VersionById(database, version_id) ==
    CHOOSE row \in Range(database.versions) : row.id = version_id

\* One row of the SELECT of get_deprecations: the deprecation joined with the
\* version it was deprecated in and, by the LEFT JOIN, its removal target.
DeprecationRecord(database, d) ==
    [element_name |-> d.element_name,
     deprecated_in_version |->
         VersionById(database, d.deprecated_in_version_id).version_string,
     removal_target_version |->
         IF d.removal_target_version_id = <<>> THEN NoneV
         ELSE VersionById(database, d.removal_target_version_id[1]).version_string]

RECURSIVE SelectRows(_, _, _)
SelectRows(database, rows, current) ==
    IF rows = <<>> THEN <<>>
    ELSE LET v1 == VersionById(database, Head(rows).deprecated_in_version_id)
             rest == SelectRows(database, Tail(rows), current)
         IN  IF v1.major <= current.major /\ v1.minor <= current.minor
                /\ v1.patch <= current.patch
             THEN <<DeprecationRecord(database, Head(rows))>> \o rest
             ELSE rest

\* get_deprecations(current_version): nothing for a version that is not
\* registered; otherwise the rows the WHERE clause lets through, latest first.
get_deprecations(database, current_version) ==
    LET current_version_info == get_version_info(database, current_version)
    IN  IF current_version_info = <<>> THEN <<>>
        ELSE Reverse(SelectRows(database, database.deprecations,
                                current_version_info[1]))

RECURSIVE RemovalCandidates(_, _)
RemovalCandidates(deprecations, current_version) ==
    IF deprecations = <<>> THEN <<>>
    ELSE LET deprecation == Head(deprecations)
             removal_version == deprecation.removal_target_version
             rest == RemovalCandidates(Tail(deprecations), current_version)
         IN  IF removal_version # NoneV
                /\ VersionTracker_compare_versions(current_version, removal_version) >= 0
             THEN <<[element |-> deprecation.element_name,
                     deprecated_in |-> deprecation.deprecated_in_version,
                     removal_target |-> removal_version,
                     ready_for_removal |-> TRUE]>> \o rest
             ELSE rest

\* DeprecationManager.check_removal_candidates
check_removal_candidates(current_version) ==
    /\ last' = TrackerCall("check_removal_candidates", <<current_version>>, NoneV,
                           RemovalCandidates(get_deprecations(db, current_version),
                                             current_version))
    /\ UNCHANGED <<snapshots, diffs, today, writes, db, stubs, hooks>>

SemverVersions == {"1.5.0", "2.0.0", "2.0.0-rc1"}

DeprecatedElements == {"foo"}

MaxDeprecations == 1

RegisterSemver == \E version_string \in SemverVersions : register_version(version_string)

Deprecate == \E element_name \in DeprecatedElements,
                deprecated_in_version \in SemverVersions,
                removal_target_version \in SemverVersions \cup {NoneV} :
                 /\ Len(db.deprecations) < MaxDeprecations
                 /\ add_deprecation(element_name, deprecated_in_version,
                                    removal_target_version)

CheckRemovalCandidates ==
    \E current_version \in SemverVersions : check_removal_candidates(current_version)

NextDeprecation == RegisterSemver \/ Deprecate \/ CheckRemovalCandidates

SpecDeprecation == Init /\ [][NextDeprecation]_vars

\* The recorded deprecations that have a removal target at or below
\* current_version.
DueDeprecations(database, current_version) ==
    {[element |-> r.element_name, deprecated_in |-> r.deprecated_in_version,
      removal_target |-> r.removal_target_version, ready_for_removal |-> TRUE] :
        r \in {DeprecationRecord(database, database.deprecations[i]) :
                   i \in DOMAIN database.deprecations
                       \cap {j \in DOMAIN database.deprecations :
                                 /\ database.deprecations[j].removal_target_version_id
                                        # <<>>
                                 /\ VersionTracker_compare_versions(
                                        VersionById(database,
                                            database.deprecations[j]
                                                .removal_target_version_id[1])
                                            .version_string,
                                        current_version) <= 0}}}

\* C21: check_removal_candidates(current) for a registered current version
\* returns exactly the recorded deprecations that have a removal target
\* version at or below current under compare_versions; an element deprecated
\* in 1.5.0 with removal target 2.0.0 is returned when current is 2.0.0.
C21_RemovalCandidates ==
    (last.op = "check_removal_candidates" /\ last.args[1] \in Registered(db))
        => Range(last.result) = DueDeprecations(db, last.args[1])

\* C11: after any sequence of register_version calls at most one row of
\* versions is flagged current, and right after a successful
\* register_version(v) the row get_current_version returns is the row of v;
\* whatever get_current_version returns is a flagged row of the table.
C11_CurrentVersion ==
    /\ Cardinality({i \in DOMAIN db.versions : db.versions[i].is_current}) <= 1
    /\ (last.op = "register_version" /\ last.error = NoneV)
           => /\ CurrentRows(db) # {}
              /\ \A row \in CurrentRows(db) :
                     /\ row.version_string = last.args[1]
                     /\ row.id = last.result
    /\ (last.op = "get_current_version" /\ last.result # <<>>)
           => CurrentRows(db) = {last.result[1]}

\* The second version has just been registered: the first lost the flag.
C11_Witness ==
    /\ last.op = "register_version"
    /\ last.error = NoneV
    /\ Len(db.versions) = 2
    /\ ~ db.versions[1].is_current
    /\ db.versions[2].is_current

\* C12 as stated: record_changes and add_deprecation raise ValueError and
\* insert no row whenever a version they refer to is not registered,
\* the removal target of add_deprecation included.
C12_MissingVersionAsStated ==
    [][/\ (/\ last'.op = "record_changes"
           /\ \/ last'.args[1] \notin Registered(db)
              \/ last'.args[2] \notin Registered(db))
          => (last'.error = "ValueError" /\ db' = db)
       /\ (/\ last'.op = "add_deprecation"
           /\ \/ last'.args[2] \notin Registered(db)
              \/ (last'.args[3] # NoneV /\ last'.args[3] \notin Registered(db)))
          => (last'.error = "ValueError" /\ db' = db)]_vars

\* C12: record_changes raises ValueError and inserts no row when its source
\* or its target version is not registered; add_deprecation does so when the
\* version the element is deprecated in is not registered.  A removal target
\* that is not registered raises nothing: the row is inserted with no
\* removal target.
C12_MissingVersion ==
    [][/\ (/\ last'.op = "record_changes"
           /\ \/ last'.args[1] \notin Registered(db)
              \/ last'.args[2] \notin Registered(db))
          => (last'.error = "ValueError" /\ db' = db)
       /\ (/\ last'.op = "add_deprecation"
           /\ last'.args[2] \notin Registered(db))
          => (last'.error = "ValueError" /\ db' = db)
       /\ (/\ last'.op = "add_deprecation"
           /\ last'.args[2] \in Registered(db)
           /\ last'.args[3] \notin Registered(db))
          => /\ last'.error = NoneV
             /\ Len(db'.deprecations) = Len(db.deprecations) + 1
             /\ db'.deprecations[Len(db'.deprecations)].removal_target_version_id
                    = <<>>
             /\ db'.versions = db.versions
             /\ db'.version_changes = db.version_changes]_vars

\* record_changes towards a version that is not registered has raised, and a
\* deprecation whose removal target is not registered is in the table.
C12_Witness ==
    /\ last.op = "record_changes"
    /\ last.error = "ValueError"
    /\ last.args[1] \in Registered(db)
    /\ last.args[2] \notin Registered(db)
    /\ db.version_changes = <<>>
    /\ Len(db.deprecations) = 1
    /\ db.deprecations[1].removal_target_version_id = <<>>

\* C24: register_version with a version string that is already registered
\* fails and leaves the version store unchanged: the same rows, the same
\* current version.
C24_DuplicateVersion ==
    [][(last'.op = "register_version" /\ last'.args[1] \in Registered(db))
           => /\ last'.error = "IntegrityError"
              /\ db' = db]_vars

\* The older of two registered versions has been registered again: the call
\* failed and the newer one is still the current version.
C24_Witness ==
    /\ last.op = "register_version"
    /\ last.error = "IntegrityError"
    /\ Len(db.versions) = 2
    /\ last.args[1] = db.versions[1].version_string
    /\ CurrentRows(db) = {db.versions[2]}

\* The classified changes of the dict classify_changes returned, in the
\* order additions, removals, modifications.
AllClassified(result) ==
    result.classified_changes.additions \o result.classified_changes.removals
        \o result.classified_changes.modifications

\* C22: whenever the compatibility_impact classify_changes computes for a
\* diff is 'breaking', the compatibility_assessment in the summary the differ
\* computed for that diff is 'breaking' too.
C22_ClassifierImpliesDiffer ==
    (Classified /\ last.result.compatibility_impact = "breaking")
        => last.result.summary.compatibility_assessment = "breaking"

\* A diff whose only change is a removed element has been classified as
\* breaking.
C22_Witness ==
    /\ Classified
    /\ last.result.compatibility_impact = "breaking"
    /\ last.result.signature_changes.removed # <<>>
    /\ last.result.signature_changes.modified = <<>>
    /\ last.result.summary.compatibility_assessment = "breaking"

\* C23: every classified change has the compatibility_impact 'breaking' or
\* 'compatible', never 'unknown', and its breaking flag is set exactly when
\* the impact is 'breaking'; summary.total_changes is the number of
\* classified changes, summary.breaking_changes_count the number of them
\* with the breaking flag, and the overall compatibility_impact is 'breaking'
\* exactly when that count is above zero.
C23_ImpactAndFlag ==
    Classified =>
        LET all_changes == AllClassified(last.result)
            summary == last.result.classified_changes.summary
        IN  /\ \A i \in DOMAIN all_changes :
                   /\ all_changes[i].compatibility_impact \in {"breaking", "compatible"}
                   /\ all_changes[i].breaking
                          <=> all_changes[i].compatibility_impact = "breaking"
            /\ summary.total_changes = Len(all_changes)
            /\ summary.breaking_changes_count
                   = Cardinality({i \in DOMAIN all_changes : all_changes[i].breaking})
            /\ last.result.compatibility_impact = "breaking"
                   <=> summary.breaking_changes_count > 0

\* A diff with a breaking change and a modification that is not breaking has
\* been classified.
C23_Witness ==
    /\ Classified
    /\ \E i \in DOMAIN AllClassified(last.result) :
           AllClassified(last.result)[i].breaking
    /\ \E j \in DOMAIN last.result.classified_changes.modifications :
           last.result.classified_changes.modifications[j].compatibility_impact
               = "compatible"
    /\ last.result.classified_changes.summary.breaking_changes_count > 0
    /\ last.result.compatibility_impact = "breaking"

NoDuplicates(seq) == \A i, j \in DOMAIN seq : seq[i] = seq[j] => i = j

\* C26: the result of compare_signatures is a partition: added, removed,
\* modified and unchanged are pairwise disjoint, none lists a name twice,
\* and together they hold exactly the names of old and of new;
\* summary.total_changes is |added| + |removed| + |modified| and
\* summary.breaking_changes is |removed| + |modified|.
C26_Partition ==
    Compared =>
        LET changes == last.result[1].signature_changes
            lists == <<changes.added, changes.removed, changes.modified,
                       changes.unchanged>>
        IN  /\ \A m, n \in 1..4 : m # n => Range(lists[m]) \cap Range(lists[n]) = {}
            /\ \A m \in 1..4 : NoDuplicates(lists[m])
            /\ UNION {Range(lists[m]) : m \in 1..4}
                   = DOMAIN OldLoaded.signature_hashes \cup DOMAIN NewLoaded.signature_hashes
            /\ changes.summary.total_changes
                   = Len(changes.added) + Len(changes.removed) + Len(changes.modified)
            /\ changes.summary.breaking_changes
                   = Len(changes.removed) + Len(changes.modified)

\* Two snapshots have been compared and each of the four lists has a name.
C26_Witness ==
    /\ Compared
    /\ last.result[1].signature_changes.added # <<>>
    /\ last.result[1].signature_changes.removed # <<>>
    /\ last.result[1].signature_changes.modified # <<>>
    /\ last.result[1].signature_changes.unchanged # <<>>

\* C25: _load_latest_snapshot(v) returns only a snapshot that was stored for
\* the version v, never one created with another version w, a w that starts
\* with v followed by '_' included; so compare_versions never compares the
\* snapshot of another version.
C25_OwnVersionOnly ==
    /\ (last.op = "load" /\ last.result # <<>>)
           => last.result[1].version = last.version
    /\ Compared => /\ OldLoaded.version = last.old_version
                   /\ NewLoaded.version = last.new_version

(***************************************************************************)
(* generation/stub_generator.py: the stub files of the StubGenerator.      *)
(* `stubs` maps the name of each file in api_reference to what the last    *)
(* write put there and to the number of times the file was opened for      *)
(* writing.  Templates are the default ones _ensure_default_templates      *)
(* installs; they render every element the extractor produces.             *)
(***************************************************************************)
MaxStubWrites == 2

\* \w, '-', '_' and '.', the characters re.sub(r'[^\w\-_.]', '_', ...) keeps.
IsSafeChar(c) == c \in DOMAIN Ord /\ ~ IsSpace(c)

safe_name(element_name) ==
    [i \in DOMAIN Chars[element_name] |->
        IF IsSafeChar(Chars[element_name][i]) THEN Chars[element_name][i] ELSE "_"]

\* f"{safe_name}_{element_type}.md"
StubFileName(element_name, element_type) ==
    safe_name(element_name) \o Chars["_"] \o Chars[element_type] \o Chars[".md"]

_get_template_name(element_type) ==
    CASE element_type = "class" -> "class.md.j2"
      [] element_type \in {"function", "callable"} -> "function.md.j2"
      [] element_type = "method" -> "method.md.j2"
      [] element_type = "module" -> "module.md.j2"
      [] element_type = "variable" -> "variable.md.j2"
      [] OTHER -> "default.md.j2"

\* The rendered template: the template and the context values it prints.
_generate_element_stub(element_name, element_data, element_type) ==
    [template |-> _get_template_name(element_type),
     element_name |-> element_name,
     docstring |-> element_data.doc,
     module |-> element_data.module,
     signature |-> element_data.signature]

\* open(file_path, 'w') and write: the file is created or replaced.
_save_stub(files, element_name, element_type, content) ==
    LET file_path == StubFileName(element_name, element_type)
        written == IF file_path \in DOMAIN files THEN files[file_path].written ELSE 0
    IN  [f \in DOMAIN files \cup {file_path} |->
            IF f = file_path THEN [content |-> content, written |-> written + 1]
            ELSE files[f]]

\* The skip test that leaves every existing stub alone, whatever force is.
SkipsExisting_IgnoresForce(files, file_path, force) == file_path \in DOMAIN files

\* `if file_path.exists() and not force: continue`
SkipsExisting(files, file_path, force) == file_path \in DOMAIN files /\ ~ force

\* The loop of regenerate_all_stubs over public_api.items(), from the files
\* and the generated_stubs so far.
RECURSIVE regenerate_all_stubs(_, _, _, _)
regenerate_all_stubs(files, public_api, force, generated_stubs) ==
    IF public_api = <<>> THEN [files |-> files, generated_stubs |-> generated_stubs]
    ELSE LET element_name == public_api[1][1]
             element_data == public_api[1][2]
             element_type == element_data.type
             file_path == StubFileName(element_name, element_type)
         IN  IF SkipsExisting(files, file_path, force)
             THEN regenerate_all_stubs(files, Tail(public_api), force, generated_stubs)
             ELSE regenerate_all_stubs(
                      _save_stub(files, element_name, element_type,
                                 _generate_element_stub(element_name, element_data,
                                                        element_type)),
                      Tail(public_api), force,
                      Append(generated_stubs, <<element_name, file_path>>))

\* The loop of generate_stubs_for_new_elements: names that are not in
\* public_api are skipped, every other stub is written.
RECURSIVE generate_stubs_for_new_elements(_, _, _, _)
generate_stubs_for_new_elements(files, new_elements, public_api, generated_stubs) ==
    IF new_elements = <<>> THEN [files |-> files, generated_stubs |-> generated_stubs]
    ELSE LET element_name == new_elements[1]
         IN  IF element_name \notin Keys(public_api)
             THEN generate_stubs_for_new_elements(files, Tail(new_elements), public_api,
                                                  generated_stubs)
             ELSE LET element_data == Get(public_api, element_name)
                      element_type == element_data.type
                  IN  generate_stubs_for_new_elements(
                          _save_stub(files, element_name, element_type,
                                     _generate_element_stub(element_name, element_data,
                                                            element_type)),
                          Tail(new_elements), public_api,
                          Append(generated_stubs,
                                 <<element_name,
                                   StubFileName(element_name, element_type)>>))

\* The api_data the stubs are generated from: foo is a function in the
\* first two and a class in the third.
StubPool ==
    {ApiData("list", Elements("base", "base", <<>>)),
     ApiData("list", Elements("doc_tail", "-", <<"new_helper">>)),
     ApiData("list", Elements("as_class", "base", <<>>))}

NewElementsPool == {<<"foo">>, <<"Bar", "old_deprecated">>}

\* No file has been written more often than the bound allows.
WithinWrites(files) == \A f \in DOMAIN files : files[f].written <= MaxStubWrites

RegenerateAllStubs ==
    /\ \E api_data \in StubPool, force \in BOOLEAN :
        LET run == regenerate_all_stubs(stubs, api_data.public_api, force, <<>>)
        IN  /\ WithinWrites(run.files)
            /\ stubs' = run.files
            /\ last' = [op |-> "regenerate_all_stubs", api_data |-> api_data,
                        force |-> force, result |-> run.generated_stubs]
    /\ UNCHANGED <<snapshots, diffs, today, writes, db, hooks>>

GenerateStubsForNewElements ==
    /\ \E api_data \in StubPool, new_elements \in NewElementsPool :
        LET run == generate_stubs_for_new_elements(stubs, new_elements,
                                                   api_data.public_api, <<>>)
        IN  /\ WithinWrites(run.files)
            /\ stubs' = run.files
            /\ last' = [op |-> "generate_stubs_for_new_elements",
                        api_data |-> api_data, new_elements |-> new_elements,
                        result |-> run.generated_stubs]
    /\ UNCHANGED <<snapshots, diffs, today, writes, db, hooks>>

NextStubs == RegenerateAllStubs \/ GenerateStubsForNewElements

SpecStubs == Init /\ [][NextStubs]_vars

\* The stub file of every element of public_api, in the order of the dict.
StubFiles(public_api) ==
    [i \in DOMAIN public_api |->
        StubFileName(public_api[i][1], public_api[i][2].type)]

TimesWritten(files, f) == IF f \in DOMAIN files THEN files[f].written ELSE 0

\* C13: a run of regenerate_all_stubs without force that follows a run on the
\* same api_data writes no file and returns the empty map; a run with force
\* writes the stub of every element of public_api once more, returns one
\* entry per element and touches no other file.
C13_Regenerate ==
    [][/\ (/\ last.op = "regenerate_all_stubs"
           /\ last'.op = "regenerate_all_stubs"
           /\ last'.api_data = last.api_data
           /\ ~ last'.force)
          => (last'.result = <<>> /\ stubs' = stubs)
       /\ (last'.op = "regenerate_all_stubs" /\ last'.force)
          => LET public_api == last'.api_data.public_api
                 files == StubFiles(public_api)
             IN  /\ last'.result = [i \in DOMAIN public_api |->
                                       <<public_api[i][1], files[i]>>]
                 /\ \A i \in DOMAIN public_api :
                        /\ files[i] \in DOMAIN stubs'
                        /\ stubs'[files[i]].written = TimesWritten(stubs, files[i]) + 1
                        /\ stubs'[files[i]].content =
                               _generate_element_stub(public_api[i][1], public_api[i][2],
                                                      public_api[i][2].type)
                 /\ \A f \in DOMAIN stubs' \ Range(files) :
                        f \in DOMAIN stubs /\ stubs'[f] = stubs[f]]_vars

\* A run without force has just found both stubs of its api_data in place,
\* each written twice before, and has written and returned nothing.
C13_Witness ==
    /\ last.op = "regenerate_all_stubs"
    /\ ~ last.force
    /\ last.result = <<>>
    /\ Len(last.api_data.public_api) = 2
    /\ \A f \in Range(StubFiles(last.api_data.public_api)) :
           f \in DOMAIN stubs /\ stubs[f].written = 2

\* C14: when the two snapshots compare_versions loads have the same element
\* names and the same hash for every element, the signature diff has empty
\* added, removed and modified lists and lists every element as unchanged.
C14_EqualHashes ==
    (Compared /\ OldLoaded.signature_hashes = NewLoaded.signature_hashes)
        => LET changes == last.result[1].signature_changes
           IN  /\ changes.added = <<>>
               /\ changes.removed = <<>>
               /\ changes.modified = <<>>
               /\ ListsExactly(changes.unchanged, DOMAIN OldLoaded.signature_hashes)
               /\ changes.summary.total_changes = 0

\* Two versions whose descriptions differ (in a docstring's tail) and whose
\* hashes are equal have been compared.
C14_Witness ==
    /\ Compared
    /\ last.old_version # last.new_version
    /\ OldLoaded.api_data # NewLoaded.api_data
    /\ OldLoaded.signature_hashes = NewLoaded.signature_hashes
    /\ Cardinality(DOMAIN OldLoaded.signature_hashes) >= 2
    /\ Len(last.result[1].signature_changes.unchanged) >= 2

ApiChangeKinds ==
    {"type_changes", "module_changes", "inheritance_changes",
     "parameter_changes", "return_type_changes"}

\* C15: every key of type_changes, module_changes, inheritance_changes,
\* parameter_changes and return_type_changes of a diff is an element of the
\* public API of the old snapshot and of the new snapshot.
C15_CommonElementsOnly ==
    Compared =>
        \A kind \in ApiChangeKinds :
            DOMAIN last.result[1].api_changes[kind]
                \subseteq (Keys(OldLoaded.api_data.public_api)
                           \cap Keys(NewLoaded.api_data.public_api))

\* The versions compared each have an element the other lacks, and the
\* elements they share changed in parameters and in base classes.
C15_Witness ==
    /\ Compared
    /\ Keys(OldLoaded.api_data.public_api) \ Keys(NewLoaded.api_data.public_api) # {}
    /\ Keys(NewLoaded.api_data.public_api) \ Keys(OldLoaded.api_data.public_api) # {}
    /\ DOMAIN last.result[1].api_changes.parameter_changes # {}
    /\ DOMAIN last.result[1].api_changes.inheritance_changes # {}

(***************************************************************************)
(* Hashing two descriptions at one sensitivity level: the descriptions     *)
(* differ in one element, or the second holds a function whose parameter   *)
(* entry is None.                                                          *)
(***************************************************************************)
BrokenFunction == Function("pkg.core", "(a)", <<<<"a", NoneParam>>>>, NoneV, "")

\* items with <<name, element_data>> put after the first `pos` of them.
InsertAt(items, pos, name, element_data) ==
    SubSeq(items, 1, pos) \o <<<<name, element_data>>>> \o SubSeq(items, pos + 1, Len(items))

LevelPairs ==
    {<<Elements(f, "base", <<>>), Elements(g, "base", <<>>)>> :
        f \in DOMAIN FooVariants, g \in DOMAIN FooVariants}
    \cup {<<Elements("base", b, <<>>), Elements("base", c, <<>>)>> :
            b \in DOMAIN BarVariants, c \in DOMAIN BarVariants}
    \cup {<<Elements("base", "base", <<"new_helper">>),
            InsertAt(Elements("base", "base", <<"new_helper">>), pos,
                     "collector_run", BrokenFunction)>> : pos \in 0..3}

InitLevels ==
    /\ snapshots = <<>>
    /\ diffs = {}
    /\ db = _init_database
    /\ stubs = NoStubs
    /\ hooks = NoHooks
    /\ today = 1
    /\ writes = 0
    /\ \E pair \in LevelPairs, level \in SensitivityLevels :
        last = [op |-> "given", sensitivity_level |-> level,
                old |-> ApiData("list", pair[1]), new |-> ApiData("list", pair[2])]

\* hash_api_signature of a SignatureHasher(sensitivity_level) on both.
HashVersions ==
    /\ last.op = "given"
    /\ last' = [op |-> "hashed", sensitivity_level |-> last.sensitivity_level,
                old |-> last.old, new |-> last.new,
                old_hashes |-> hash_api_signature(last.sensitivity_level, last.old),
                new_hashes |-> hash_api_signature(last.sensitivity_level, last.new)]
    /\ UNCHANGED <<snapshots, diffs, today, writes, db, stubs, hooks>>

\* compare_signatures on the two results.
DiffHashes ==
    /\ last.op = "hashed"
    /\ last' = [op |-> "diffed", sensitivity_level |-> last.sensitivity_level,
                old |-> last.old, new |-> last.new,
                changes |-> compare_signatures(last.old_hashes, last.new_hashes)]
    /\ UNCHANGED <<snapshots, diffs, today, writes, db, stubs, hooks>>

NextLevels == HashVersions \/ DiffHashes

SpecLevels == InitLevels /\ [][NextLevels]_vars

HashedRelaxed == last.op = "hashed" /\ last.sensitivity_level = "relaxed"

OldElement(e) == Get(last.old.public_api, e)

NewElement(e) == Get(last.new.public_api, e)

BothOfType(e, types) == OldElement(e).type \in types /\ NewElement(e).type \in types

C19_ErrorSentinel ==
    last.op = "hashed" =>
        \A side \in {"old", "new"} :
            LET api_data == IF side = "old" THEN last.old ELSE last.new
                hashes == IF side = "old" THEN last.old_hashes ELSE last.new_hashes
            IN  /\ DOMAIN hashes = Keys(api_data.public_api)
                /\ Cardinality(DOMAIN hashes) = Len(api_data.public_api)
                /\ \A e \in Keys(api_data.public_api) :
                       IF HashingRaises(last.sensitivity_level, Get(api_data.public_api, e))
                       THEN hashes[e] = "error"
                       ELSE /\ hashes[e] # "error"
                            /\ hashes[e] = _create_element_hash(
                                               last.sensitivity_level, e,
                                               Get(api_data.public_api, e))

\* A description whose second of four elements raises has been hashed at the
\* strict level: that element has "error", the elements before and after it
\* have the hashes they have in the description without it.
C19_Witness ==
    /\ last.op = "hashed"
    /\ last.sensitivity_level = "strict"
    /\ Len(last.new.public_api) = 4
    /\ last.new.public_api[2][1] = "collector_run"
    /\ last.new_hashes["collector_run"] = "error"
    /\ \A e \in DOMAIN last.old_hashes :
           last.new_hashes[e] = last.old_hashes[e] /\ last.new_hashes[e] # "error"

(***************************************************************************)
(* Properties of the snapshot store (Spec).                                *)
(***************************************************************************)
\* C17: every create_api_snapshot call adds a new snapshot file and leaves
\* the content of every file stored by an earlier call as it was.
C17_NeverMutated ==
    [][last'.op = "create"
       => /\ \A f \in DOMAIN snapshots :
                 f \in DOMAIN snapshots' /\ snapshots'[f].content = snapshots[f].content
          /\ Cardinality(DOMAIN snapshots') = Cardinality(DOMAIN snapshots) + 1]_vars

\* The files Path.glob finds for the version.
MatchingFiles(version) == {f \in DOMAIN snapshots : GlobMatches(version, f)}

C20_BumpOfClassifyResult ==
    (last.op = "bump" /\ last.arg = "result") =>
        LET classified_changes == last.given.classified_changes
            summary == classified_changes.summary
            signature_changes == last.given.signature_changes
            bump == last.result.suggested_bump
        IN  /\ bump = IF summary.breaking_changes_count > 0 THEN "major"
                      ELSE IF Len(classified_changes.additions) > 0 THEN "minor"
                      ELSE IF summary.total_changes > 0 THEN "patch"
                      ELSE NoneV
            /\ (/\ signature_changes.added # <<>>
                /\ signature_changes.removed = <<>>
                /\ signature_changes.modified = <<>>
                /\ summary.breaking_changes_count = 0) => bump = "minor"
            /\ (/\ signature_changes.added = <<>>
                /\ signature_changes.removed = <<>>
                /\ signature_changes.modified # <<>>
                /\ summary.breaking_changes_count = 0) => bump = "patch"

(***************************************************************************)
(* ci/gating_logic.py: the documentation gate.  gate_checks is the dict of  *)
(* the five checks in the order they are run, each with a status and a      *)
(* message; a blocking issue or a warning is the pair of the check's name   *)
(* and its message.                                                         *)
(***************************************************************************)
CheckResult(status, message) == [status |-> status, message |-> message]

\* gating_config["completeness_threshold"] * 100
completeness_threshold == 95

\* _check_documentation_completeness: the checker raises (<<>>) or reports
\* a percentage (<<completeness_pct>>).
_check_documentation_completeness(completeness) ==
    IF completeness = <<>>
    THEN CheckResult("error", "Completeness check failed")
    ELSE IF completeness[1] >= completeness_threshold
    THEN CheckResult("passed", "Documentation completeness")
    ELSE CheckResult("failed", "Documentation completeness below threshold")

\* _check_doctest_validation with doctest_pass_rate 1.0: the validator raises
\* or reports <<total_tests, passed_tests>>.
_check_doctest_validation(doctests) ==
    IF doctests = <<>>
    THEN CheckResult("error", "Doctest validation failed")
    ELSE IF doctests[1] = 0
    THEN CheckResult("warning", "No doctests found")
    ELSE IF doctests[2] >= doctests[1]
    THEN CheckResult("passed", "Doctests passed")
    ELSE CheckResult("failed", "Doctest pass rate below threshold")

\* _get_api_diff: None without both references or when the differ cannot be
\* built, otherwise the diff without changes the code returns for now.
_get_api_diff(base_ref, head_ref, differ_fails) ==
    IF base_ref = NoneV \/ head_ref = NoneV \/ differ_fails THEN <<>>
    ELSE <<[signature_changes |-> [added |-> <<>>, removed |-> <<>>, modified |-> <<>>],
            breaking_changes |-> <<>>]>>

\* _check_api_changes with breaking_change_tolerance "none".
_check_api_changes(context, differ_fails) ==
    LET api_diff == _get_api_diff(context.base_ref, context.head_ref, differ_fails)
    IN  IF context.base_ref = NoneV \/ context.head_ref = NoneV
        THEN CheckResult("skipped", "No branch comparison context available")
        ELSE IF api_diff = <<>>
        THEN CheckResult("passed", "No API changes detected")
        ELSE IF api_diff[1].breaking_changes # <<>>
        THEN CheckResult("failed", "Breaking changes not allowed")
        ELSE CheckResult("passed", "API changes acceptable")

\* _check_breaking_change_documentation: a breaking change of the diff needs
\* migration_notes, which no entry of breaking_changes has.
_check_breaking_change_documentation(context, differ_fails) ==
    LET api_diff == _get_api_diff(context.base_ref, context.head_ref, differ_fails)
    IN  IF api_diff = <<>>
        THEN CheckResult("passed", "No API changes to document")
        ELSE IF api_diff[1].breaking_changes = <<>>
        THEN CheckResult("passed", "No breaking changes to document")
        ELSE CheckResult("failed", "Breaking changes lack proper documentation")

\* _check_new_api_documentation: with no added element the package is not
\* looked at.
_check_new_api_documentation(context, differ_fails, undocumented) ==
    LET api_diff == _get_api_diff(context.base_ref, context.head_ref, differ_fails)
    IN  IF api_diff = <<>>
        THEN CheckResult("passed", "No new APIs to document")
        ELSE IF api_diff[1].signature_changes.added = <<>>
        THEN CheckResult("passed", "No new APIs added")
        ELSE IF undocumented
        THEN CheckResult("failed", "New APIs lack documentation")
        ELSE CheckResult("passed", "All new APIs documented")

\* The names of the checks with one of the statuses, in the order of the dict.
ChecksWith(checks, statuses) ==
    LET F[i \in 0..Len(checks)] ==
            IF i = 0 THEN <<>>
            ELSE IF checks[i][2].status \in statuses THEN F[i - 1] \o <<checks[i]>>
            ELSE F[i - 1]
    IN  F[Len(checks)]

Issues(checks) == [i \in DOMAIN checks |-> <<checks[i][1], checks[i][2].message>>]

Names(checks) == [i \in DOMAIN checks |-> checks[i][1]]

\* _evaluate_overall_gate_status that does not let a check in error block.
_evaluate_overall_gate_status_ErrorsPass(gate_result) ==
    LET checks == gate_result.gate_checks
        failed_checks == ChecksWith(checks, {"failed"})
        warning_checks == ChecksWith(checks, {"warning"})
    IN  IF failed_checks # <<>>
        THEN [gate_result EXCEPT
                !.blocking_issues = @ \o Issues(failed_checks),
                !.warnings = @ \o Issues(warning_checks),
                !.gate_status = "failed",
                !.override_allowed = TRUE,
                !.override_reason = Names(failed_checks)]
        ELSE [gate_result EXCEPT
                !.warnings = @ \o Issues(warning_checks),
                !.gate_status = IF warning_checks # <<>> THEN "warning" ELSE "passed"]

\* _evaluate_overall_gate_status with require_maintainer_override set, as
\* the constructor sets it.  override_reason lists the failed checks and
\* then the checks in error.
_evaluate_overall_gate_status(gate_result) ==
    LET checks == gate_result.gate_checks
        failed_checks == ChecksWith(checks, {"failed"})
        error_checks == ChecksWith(checks, {"error"})
        warning_checks == ChecksWith(checks, {"warning"})
    IN  IF failed_checks # <<>> \/ error_checks # <<>>
        THEN [gate_result EXCEPT
                !.blocking_issues = @ \o Issues(ChecksWith(checks, {"failed", "error"})),
                !.warnings = @ \o Issues(warning_checks),
                !.gate_status = "failed",
                !.override_allowed = TRUE,
                !.override_reason = Names(failed_checks) \o Names(error_checks)]
        ELSE [gate_result EXCEPT
                !.warnings = @ \o Issues(warning_checks),
                !.gate_status = IF warning_checks # <<>> THEN "warning" ELSE "passed"]

StatusOf(gate_result, check_name) ==
    LET found == ChecksWith(gate_result.gate_checks,
                            {"passed", "failed", "error", "warning", "skipped"})
        at == {i \in DOMAIN found : found[i][1] = check_name}
    IN  IF at = {} THEN NoneV ELSE found[CHOOSE i \in at : TRUE][2].status

_generate_gate_recommendations(gate_result) ==
    (IF StatusOf(gate_result, "completeness") = "failed"
     THEN <<"Add documentation to undocumented elements">> ELSE <<>>)
    \o (IF StatusOf(gate_result, "doctest_validation") = "failed"
        THEN <<"Fix failing doctests before merging">> ELSE <<>>)
    \o (IF StatusOf(gate_result, "api_changes") = "failed"
        THEN <<"Review breaking changes and consider deprecation path">> ELSE <<>>)
    \o (IF StatusOf(gate_result, "breaking_changes") = "failed"
        THEN <<"Add migration notes for breaking changes">> ELSE <<>>)
    \o (IF StatusOf(gate_result, "new_apis") = "failed"
        THEN <<"Add documentation for new APIs">> ELSE <<>>)
    \o (IF gate_result.gate_status = "failed"
        THEN <<"Address blocking issues before merging">> ELSE <<>>)
    \o (IF gate_result.override_allowed
        THEN <<"Consider maintainer override if issues cannot be immediately resolved">>
        ELSE <<>>)

\* The gate_result evaluate_documentation_gate starts from.
NewGateResult(gate_checks) ==
    [gate_status |-> "unknown", gate_checks |-> gate_checks,
     blocking_issues |-> <<>>, warnings |-> <<>>, recommendations |-> <<>>,
     override_allowed |-> FALSE, override_reason |-> NoneV]

evaluate_documentation_gate(context, completeness, doctests, differ_fails) ==
    LET gate_checks ==
            << <<"completeness", _check_documentation_completeness(completeness)>>,
               <<"doctest_validation", _check_doctest_validation(doctests)>>,
               <<"api_changes", _check_api_changes(context, differ_fails)>>,
               <<"breaking_changes",
                 _check_breaking_change_documentation(context, differ_fails)>>,
               <<"new_apis", _check_new_api_documentation(context, differ_fails, FALSE)>> >>
        evaluated == _evaluate_overall_gate_status(NewGateResult(gate_checks))
    IN  [evaluated EXCEPT !.recommendations = _generate_gate_recommendations(evaluated)]

GateContexts ==
    {[base_ref |-> b, head_ref |-> h] : b \in {NoneV, "main"}, h \in {NoneV, "feature"}}

CompletenessPool == {<<>>, <<90>>, <<95>>, <<100>>}

DoctestPool == {<<>>, <<0, 0>>, <<2, 1>>, <<2, 2>>}

CheckNames ==
    <<"completeness", "doctest_validation", "api_changes", "breaking_changes", "new_apis">>

\* The statuses each check returns on one of its paths.
CheckStatuses ==
    <<{"passed", "failed", "error"},
      {"warning", "passed", "failed", "error"},
      {"skipped", "passed", "failed", "error"},
      {"passed", "failed", "error"},
      {"passed", "failed", "error"}>>

EvaluateDocumentationGate ==
    /\ \E context \in GateContexts, completeness \in CompletenessPool,
          doctests \in DoctestPool, differ_fails \in BOOLEAN :
          last' = [op |-> "evaluate_documentation_gate",
                   result |-> evaluate_documentation_gate(context, completeness,
                                                          doctests, differ_fails)]
    /\ UNCHANGED <<snapshots, diffs, today, writes, db, stubs, hooks>>

\* _evaluate_overall_gate_status on the results of the five checks, each
\* with any status it can return.
EvaluateOverallGateStatus ==
    /\ \E statuses \in {f \in [DOMAIN CheckNames -> UNION Range(CheckStatuses)] :
                             \A i \in DOMAIN CheckNames : f[i] \in CheckStatuses[i]} :
          last' = [op |-> "_evaluate_overall_gate_status",
                   result |-> _evaluate_overall_gate_status(
                       NewGateResult([i \in DOMAIN CheckNames |->
                           <<CheckNames[i], CheckResult(statuses[i], "Check message")>>]))]
    /\ UNCHANGED <<snapshots, diffs, today, writes, db, stubs, hooks>>

NextGate == EvaluateDocumentationGate \/ EvaluateOverallGateStatus

SpecGate == Init /\ [][NextGate]_vars

GateEvaluated ==
    last.op \in {"evaluate_documentation_gate", "_evaluate_overall_gate_status"}

\* C27: the gate status is 'failed' exactly when at least one check is
\* 'failed' or 'error', and each such check adds one blocking issue;
\* otherwise it is 'warning' when at least one check is 'warning', otherwise
\* 'passed'; a check that is 'skipped' or 'passed' never blocks, and
\* override_allowed is True only when the gate status is 'failed'.
C27_GateStatus ==
    GateEvaluated =>
        LET gate_result == last.result
            checks == gate_result.gate_checks
            blocking == {i \in DOMAIN checks : checks[i][2].status \in {"failed", "error"}}
            warning == {i \in DOMAIN checks : checks[i][2].status = "warning"}
        IN  /\ gate_result.gate_status = "failed" <=> blocking # {}
            /\ Len(gate_result.blocking_issues) = Cardinality(blocking)
            /\ {gate_result.blocking_issues[i][1] : i \in DOMAIN gate_result.blocking_issues}
                   = {checks[i][1] : i \in blocking}
            /\ blocking = {} =>
                   gate_result.gate_status = IF warning # {} THEN "warning" ELSE "passed"
            /\ gate_result.override_allowed => gate_result.gate_status = "failed"

\* The gate has failed on a check in error alone, next to a warning and a
\* skipped check.
C27_Witness ==
    /\ GateEvaluated
    /\ last.result.gate_status = "failed"
    /\ Len(last.result.blocking_issues) = 1
    /\ ChecksWith(last.result.gate_checks, {"failed"}) = <<>>
    /\ ChecksWith(last.result.gate_checks, {"error"}) # <<>>
    /\ ChecksWith(last.result.gate_checks, {"warning"}) # <<>>
    /\ ChecksWith(last.result.gate_checks, {"skipped"}) # <<>>
    /\ last.result.override_allowed

(***************************************************************************)
(* ci/pre_commit_hook.py: installing and uninstalling the git pre-commit    *)
(* hook.  `hooks` holds the content of .git/hooks/pre-commit and of         *)
(* .git/hooks/pre-commit.backup.  `last` also records how many              *)
(* install_git_hook calls ran in a row up to the call and what the hooks    *)
(* directory held before the first of them.                                 *)
(***************************************************************************)
MaxInstalls == 6

\* The packages a PreCommitHook is made for.
Packages == {"gapless_crypto_data", "pkg"}

\* The script of _generate_git_hook_script, which names the package.
_generate_git_hook_script(package_name) ==
    IF package_name = "pkg"
    THEN "# Ultrathink Documentation Pre-commit Hook --package pkg"
    ELSE "# Ultrathink Documentation Pre-commit Hook --package gapless_crypto_data"

\* The hooks a user wrote.
UserHooks == {"# my own hook", "# my other hook"}

Exists(file) == file # NoneV

\* The hooks directory after install_git_hook: a hook that is there is moved
\* to pre-commit.backup unless a backup is there already, then the script is
\* written.
AfterInstall(dir, package_name) ==
    [pre_commit |-> _generate_git_hook_script(package_name),
     backup |-> IF Exists(dir.pre_commit) /\ ~ Exists(dir.backup)
                THEN dir.pre_commit ELSE dir.backup]

\* The hooks directory after uninstall_git_hook: nothing happens without a
\* pre-commit file; otherwise it is removed and the backup, if there is one,
\* is moved back.
AfterUninstall(dir) ==
    IF ~ Exists(dir.pre_commit) THEN dir
    ELSE [pre_commit |-> dir.backup, backup |-> NoneV]

InstallsBefore == IF last.op = "install_git_hook" THEN last.installs ELSE 0

StartOfInstalls == IF last.op = "install_git_hook" THEN last.start ELSE hooks

install_git_hook(package_name) ==
    /\ InstallsBefore < MaxInstalls
    /\ hooks' = AfterInstall(hooks, package_name)
    /\ last' = [op |-> "install_git_hook", package_name |-> package_name,
                installs |-> InstallsBefore + 1, start |-> StartOfInstalls]
    /\ UNCHANGED <<snapshots, diffs, today, writes, db, stubs>>

uninstall_git_hook ==
    /\ hooks' = AfterUninstall(hooks)
    /\ last' = [op |-> "uninstall_git_hook", result |-> Exists(hooks.pre_commit),
                installs |-> InstallsBefore, start |-> StartOfInstalls]
    /\ UNCHANGED <<snapshots, diffs, today, writes, db, stubs>>

\* A repository with no pre-commit hook or with one its user wrote.
InitHooks ==
    /\ snapshots = <<>>
    /\ diffs = {}
    /\ db = _init_database
    /\ stubs = NoStubs
    /\ today = 1
    /\ writes = 0
    /\ last = [op |-> "init"]
    /\ \E hook \in UserHooks \cup {NoneV} : hooks = [pre_commit |-> hook, backup |-> NoneV]

InstallGitHook == \E package_name \in Packages : install_git_hook(package_name)

UninstallGitHook == uninstall_git_hook

NextHooks == InstallGitHook \/ UninstallGitHook

SpecHooks == InitHooks /\ [][NextHooks]_vars

\* C29: starting with no pre-commit.backup, any k >= 1 install_git_hook calls
\* in a row followed by one uninstall_git_hook leave the hooks directory as
\* it was before the first install: a hook that was there is back with its
\* content and there is no backup, and where there was no hook none remains.
C29_InstallsThenUninstall ==
    (/\ last.op = "uninstall_git_hook"
     /\ last.installs >= 1
     /\ ~ Exists(last.start.backup))
        => hooks = last.start

\* C30: a hook the user wrote is never lost: starting with a user-written
\* pre-commit hook and no backup, after any sequence of install_git_hook and
\* uninstall_git_hook calls its content is still there, as pre-commit or as
\* pre-commit.backup.
C30_UserHookKept ==
    [][\A hook \in UserHooks :
           (hooks.pre_commit = hook \/ hooks.backup = hook)
               => (hooks'.pre_commit = hook \/ hooks'.backup = hook)]_vars

(***************************************************************************)
(* generation/autodoc_builder.py and cli/ultrathink_cli.py: the build.      *)
(* build_stages is the dict of the stages in the order they are entered,    *)
(* each with its status.  The files the build writes besides the snapshot,  *)
(* the diff and the stubs (comparison results, summary, index, build        *)
(* results) are written under names of their own and read by nothing here.  *)
(***************************************************************************)
Stage(name, status) == <<name, status>>

BuildResult(build_status, build_stages, generated_files, errors) ==
    [build_status |-> build_status, build_stages |-> build_stages,
     generated_files |-> generated_files, errors |-> errors]

\* _handle_build: the exit code of the build command.
_handle_build(build_result) == IF build_result.build_status = "completed" THEN 0 ELSE 1

BuildCall(version, compare_with, build_result) ==
    [op |-> "build", version |-> version, compare_with |-> compare_with,
     result |-> build_result, exit_code |-> _handle_build(build_result)]

\* Stage 4 after classify_changes: the stubs of the added elements.
StubsOfAdded(day, version, compare_with, api_data, new_elements) ==
    [stages |-> <<Stage("change_detection", "completed"),
                  Stage("stub_generation",
                        IF new_elements # <<>> THEN "completed" ELSE "skipped")>>,
     errors |-> <<>>,
     generated_files |-> (IF new_elements # <<>> THEN <<"new_stubs">> ELSE <<>>)
                         \o <<"comparison_results">>,
     diffs |-> diffs \cup {<<compare_with, version, DateStr[day]>>},
     stubs |-> IF new_elements # <<>>
               THEN generate_stubs_for_new_elements(stubs, new_elements,
                                                    api_data.public_api, <<>>).files
               ELSE stubs]

ChangeDetectionOf(day, version, compare_with, api_data, old_snapshot, new_snapshot) ==
    IF old_snapshot = <<>> \/ new_snapshot = <<>>
    THEN [stages |-> <<Stage("change_detection", "failed")>>,
          errors |-> <<"Change detection failed">>,
          generated_files |-> <<>>, diffs |-> diffs, stubs |-> stubs]
    ELSE StubsOfAdded(day, version, compare_with, api_data,
             classify_changes(DiffResult(compare_with, version, old_snapshot[1],
                                         new_snapshot[1])).signature_changes.added)

\* Stage 4 with compare_with: compare_versions, classify_changes and the
\* stubs of the added elements, inside a try of their own.  The result is
\* the stages and errors the block adds and the diffs and stubs it leaves.
ChangeDetection(store, day, version, compare_with, api_data) ==
    ChangeDetectionOf(day, version, compare_with, api_data,
                      _load_latest_snapshot(store, compare_with),
                      _load_latest_snapshot(store, version))

\* Stage 4 without compare_with: the stubs of every element, none forced.
AllStubs(api_data) ==
    [stages |-> <<Stage("stub_generation", "completed")>>, errors |-> <<>>,
     generated_files |-> <<"all_stubs">>, diffs |-> diffs,
     stubs |-> regenerate_all_stubs(stubs, api_data.public_api, FALSE, <<>>).files]

\* The build from stage 6 on: the summary and the index are generated and
\* build_status is set to 'completed', whatever stage 4 recorded.
BuildCompleted(version, compare_with, day, store, stage4) ==
    /\ Cardinality(stage4.diffs) <= MaxDiffs
    /\ WithinWrites(stage4.stubs)
    /\ snapshots' = store
    /\ today' = day
    /\ writes' = writes + 1
    /\ diffs' = stage4.diffs
    /\ stubs' = stage4.stubs
    /\ last' = BuildCall(version, compare_with,
                   BuildResult("completed",
                               <<Stage("analysis", "completed"),
                                 Stage("api_extraction", "completed"),
                                 Stage("snapshot", "completed")>>
                               \o stage4.stages
                               \o <<Stage("summary_generation", "completed"),
                                    Stage("index_generation", "completed")>>,
                               <<"api_snapshot">> \o stage4.generated_files
                                   \o <<"summary_docs", "index_files">>,
                               stage4.errors))

\* The build from stage 3 on: the snapshot is stored, then stage 4 runs.
BuildFromSnapshot(version, compare_with, api_data, day, store) ==
    BuildCompleted(version, compare_with, day, store,
                   IF compare_with # NoneV
                   THEN ChangeDetection(store, day, version, compare_with, api_data)
                   ELSE AllStubs(api_data))

\* build_complete_documentation.  When the package cannot be loaded the
\* analysis raises and the outer except sets 'failed'.
build_complete_documentation(version, compare_with, api_data, loads) ==
    /\ writes < MaxWrites
    /\ IF ~ loads
       THEN /\ last' = BuildCall(version, compare_with,
                           BuildResult("failed", <<>>, <<>>,
                                       <<"Documentation build failed">>))
            /\ UNCHANGED <<snapshots, diffs, today, writes, stubs>>
       ELSE \E day \in Now :
                BuildFromSnapshot(version, compare_with, api_data, day,
                    StoreAfterCreate(snapshots, api_data, version, day, writes + 1))
    /\ UNCHANGED <<db, hooks>>

Build == \E version \in Versions, compare_with \in Versions \cup {NoneV},
            api_data \in ApiPool, loads \in BOOLEAN :
             build_complete_documentation(version, compare_with, api_data, loads)

NextBuild == Build

SpecBuild == Init /\ [][NextBuild]_vars

\* C28: build_status is 'completed', and the build command exits with 0,
\* only when no stage failed: whenever it is 'completed' the errors list is
\* empty and no stage has the status 'failed', also when compare_with names
\* a version that has no snapshot.
C28_CompletedMeansNoFailure ==
    (last.op = "build" /\ (last.result.build_status = "completed" \/ last.exit_code = 0))
        => /\ last.result.errors = <<>>
           /\ \A i \in DOMAIN last.result.build_stages :
                  last.result.build_stages[i][2] # "failed"

====
